---- MODULE Spec2Model ----
(***************************************************************************)
(* The Monty REPL layer of deepagents:                                     *)
(*   - _MontyOS, the adapter that answers the engine's filesystem queries  *)
(*     from a backend's ls_info / download_files / upload_files / write;   *)
(*   - MontyREPL.repl, the one-shot entry point (final expression value);  *)
(*   - MontyMiddleware's repl tool (_run_monty), the printed-output entry  *)
(*     point;                                                              *)
(*   - the repl tool of FilesystemMiddleware, which delegates to           *)
(*     backend.repl (modelled from the specification and its tests);       *)
(*   - two invocations of _run_monty interleaved on one middleware;        *)
(*   - the /vision and /chat endpoints of voice_vision_app's bridge;       *)
(*   - the filesystem methods of MontyREPL, which forward to the wrapped   *)
(*     backend;                                                            *)
(*   - MediaTracker of deepagents_cli/input.py.                            *)
(* Strings are TLA+ strings, paths are sequences of path components        *)
(* (<<>> is "/"), byte strings are sequences of byte values.               *)
(***************************************************************************)
EXTENDS Integers, Sequences, FiniteSets, TLC

VARIABLES
    backend,    \* the storage backend: [ls: path -> entries, files: path -> download response]
    cfg,        \* how the middleware / REPL object was constructed
    state,      \* runtime.state of the conversation: the "repl_state" field
    pc,         \* position of the invocation in flight ("idle" when none)
    req,        \* the invocation's arguments: [tool, code_ok, timeout]
    limits,     \* ResourceLimits of the invocation
    resolved,   \* the backend resolved for the invocation
    engine,     \* the pydantic_monty.Monty instance of the invocation
    printed,    \* the `result` list filled by print_callback
    trace,      \* what the invocation did so far, in order
    result,     \* what the invocation returned (or the fault that escaped)
    lastOp,     \* the last adapter operation and its outcome
    invocations,        \* concurrent calls of _run_monty: the locals of each call
    result_list,        \* the `result` lists that print_callback closures append to
    agent,              \* python_bridge: the global agent is set
    active_vision_task, \* python_bridge: the global of that name (0 is None)
    tasks,              \* python_bridge: the asyncio tasks of the event loop
    wrapped_calls,      \* the calls the backend wrapped by a MontyREPL received
    twin_calls,         \* the calls an identical backend, called directly, received
    proxied,            \* the last filesystem call: its arguments and both results
    images,             \* MediaTracker.images: the placeholders of the tracked images
    videos,             \* MediaTracker.videos: the placeholders of the tracked videos
    next_image_id,      \* MediaTracker.next_image_id
    next_video_id,      \* MediaTracker.next_video_id
    media_op            \* the last MediaTracker operation and its argument

vars ==
    <<backend, cfg, state, pc, req, limits, resolved, engine, printed, trace, result, lastOp,
      invocations, result_list, agent, active_vision_task, tasks,
      wrapped_calls, twin_calls, proxied,
      images, videos, next_image_id, next_video_id, media_op>>

concVars == <<invocations, result_list>>

visionVars == <<agent, active_vision_task, tasks>>

proxyVars == <<wrapped_calls, twin_calls, proxied>>

mediaVars == <<images, videos, next_image_id, next_video_id, media_op>>

toolVars == <<cfg, state, pc, req, limits, resolved, engine, printed, trace, result>>

(***************************************************************************)
(* Bounds of the model.                                                    *)
(***************************************************************************)
\* The most steps (prints, filesystem calls, foreign calls) one script run takes.
MaxSteps == 2

(***************************************************************************)
(* Paths.  PurePosixPath("/") is <<>>, PurePosixPath("/d/b") is <<"d","b">>. *)
(***************************************************************************)
Root == <<>>

Paths == {Root, <<"a.txt">>, <<"d">>, <<"d", "b">>}

\* PurePosixPath.parent: the parent of the root is the root.
Parent(path) == IF path = Root THEN Root ELSE SubSeq(path, 1, Len(path) - 1)

(***************************************************************************)
(* The backend capability interface, as the adapter sees it.               *)
(***************************************************************************)
NoBytes == <<>>

Bytes == {<<104, 105>>, <<255>>}

\* FileDownloadResponse(path, content, error)
DlNotFound == [error |-> TRUE, has_content |-> FALSE, content |-> NoBytes]

DlOk(data) == [error |-> FALSE, has_content |-> TRUE, content |-> data]

DlNull == [error |-> FALSE, has_content |-> FALSE, content |-> NoBytes]

DlResponses == {DlNotFound, DlNull} \cup {DlOk(data) : data \in Bytes}

\* FileInfo: a dict with "path" and the optional keys "is_dir" and "size".
EntryKinds == {"file", "dir", "noflag"}

Info(path, kind) ==
    [path |-> path, has_is_dir |-> kind # "noflag", is_dir |-> kind = "dir",
     has_size |-> kind = "file", size |-> IF kind = "file" THEN Len(path) ELSE 0]

\* info.get("is_dir", False)
InfoIsDir(info) == IF info.has_is_dir THEN info.is_dir ELSE FALSE

ls_info(b, path) == b.ls[path]

download_files(b, path) == b.files[path]

\* A faithful backend stores what is uploaded: download returns it afterwards.
upload_files(b, path, data) == [b EXCEPT !.files[path] = DlOk(data)]

\* str.encode("utf-8"), on texts given as sequences of code points below 2048:
\* a code point below 128 is one byte, any other is two bytes.
RECURSIVE Utf8Encode(_)
Utf8Encode(text) ==
    IF text = <<>> THEN <<>>
    ELSE LET c == Head(text) IN
         (IF c < 128 THEN <<c>> ELSE <<192 + (c \div 64), 128 + (c % 64)>>)
             \o Utf8Encode(Tail(text))

write(b, path, text) == [b EXCEPT !.files[path] = DlOk(Utf8Encode(text))]

Call(prim, path) == <<prim, path>>

(***************************************************************************)
(* _MontyOS.  Every operation yields what it returns (or raises), the      *)
(* backend calls it made, in order, and the backend afterwards.            *)
(***************************************************************************)
BoolV(v) == [kind |-> "bool", b |-> v]

BytesV(data) == [kind |-> "bytes", bytes |-> data]

PathsV(ps) == [kind |-> "paths", paths |-> ps]

NoneV == [kind |-> "none"]

Raise(exc) == [kind |-> "raise", exc |-> exc]

Done(ret, calls, b) == [ret |-> ret, calls |-> calls, backend |-> b]

\* any(info.get("path") == p for info in infos)
AnyPath(infos, path) == \E i \in 1..Len(infos) : infos[i].path = path

\* the first entry of infos whose path is p (the `for ... if ...: return` loop)
FirstWithPath(infos, path) ==
    infos[CHOOSE i \in 1..Len(infos) :
            /\ infos[i].path = path
            /\ \A j \in 1..(i - 1) : infos[j].path # path]

\* path_exists that looks at the parent's listing only
path_exists_ParentOnly(b, path) ==
    IF path = Root THEN Done(BoolV(TRUE), <<>>, b)
    ELSE Done(BoolV(AnyPath(ls_info(b, Parent(path)), path)),
              <<Call("ls_info", Parent(path))>>, b)

path_exists(b, path) ==
    IF path = Root THEN Done(BoolV(TRUE), <<>>, b)
    ELSE IF ls_info(b, path) # <<>>
         THEN Done(BoolV(TRUE), <<Call("ls_info", path)>>, b)
    ELSE IF Parent(path) = path
         THEN Done(BoolV(FALSE), <<Call("ls_info", path)>>, b)
    ELSE Done(BoolV(AnyPath(ls_info(b, Parent(path)), path)),
              <<Call("ls_info", path), Call("ls_info", Parent(path))>>, b)

\* path_is_file without its early return for "/"
path_is_file_NoRootCase(b, path) ==
    LET parent_infos == ls_info(b, Parent(path)) IN
    IF AnyPath(parent_infos, path)
    THEN Done(BoolV(~InfoIsDir(FirstWithPath(parent_infos, path))),
              <<Call("ls_info", Parent(path))>>, b)
    ELSE LET res == download_files(b, path) IN
         Done(BoolV(~res.error /\ res.has_content),
              <<Call("ls_info", Parent(path)), Call("download_files", path)>>, b)

\* path_is_file that checks a listed entry against a download of the path
path_is_file_CrossValidated(b, path) ==
    IF path = Root THEN Done(BoolV(FALSE), <<>>, b)
    ELSE LET parent_infos == ls_info(b, Parent(path))
             res == download_files(b, path)
         IN  Done(BoolV(/\ ~res.error /\ res.has_content
                        /\ AnyPath(parent_infos, path) =>
                              ~InfoIsDir(FirstWithPath(parent_infos, path))),
                  <<Call("ls_info", Parent(path)), Call("download_files", path)>>, b)

path_is_file(b, path) ==
    IF path = Root THEN Done(BoolV(FALSE), <<>>, b)
    ELSE LET parent_infos == ls_info(b, Parent(path)) IN
         IF AnyPath(parent_infos, path)
         THEN Done(BoolV(~InfoIsDir(FirstWithPath(parent_infos, path))),
                   <<Call("ls_info", Parent(path))>>, b)
         ELSE LET res == download_files(b, path) IN
              Done(BoolV(~res.error /\ res.has_content),
                   <<Call("ls_info", Parent(path)), Call("download_files", path)>>, b)

\* path_is_dir that trusts a non-empty listing of the path before the entry
\* in the parent's listing
path_is_dir_OwnListingFirst(b, path) ==
    IF path = Root THEN Done(BoolV(TRUE), <<>>, b)
    ELSE IF ls_info(b, path) # <<>> THEN Done(BoolV(TRUE), <<Call("ls_info", path)>>, b)
    ELSE LET parent_infos == ls_info(b, Parent(path)) IN
         Done(BoolV(AnyPath(parent_infos, path) /\ InfoIsDir(FirstWithPath(parent_infos, path))),
              <<Call("ls_info", path), Call("ls_info", Parent(path))>>, b)

\* path_is_dir without the fallback to the listing of the path itself
path_is_dir_NoFallback(b, path) ==
    IF path = Root THEN Done(BoolV(TRUE), <<>>, b)
    ELSE LET parent_infos == ls_info(b, Parent(path)) IN
         Done(BoolV(AnyPath(parent_infos, path) /\ InfoIsDir(FirstWithPath(parent_infos, path))),
              <<Call("ls_info", Parent(path))>>, b)

path_is_dir(b, path) ==
    IF path = Root THEN Done(BoolV(TRUE), <<>>, b)
    ELSE LET parent_infos == ls_info(b, Parent(path)) IN
         IF AnyPath(parent_infos, path)
         THEN Done(BoolV(InfoIsDir(FirstWithPath(parent_infos, path))),
                   <<Call("ls_info", Parent(path))>>, b)
         ELSE Done(BoolV(ls_info(b, path) # <<>>),
                   <<Call("ls_info", Parent(path)), Call("ls_info", path)>>, b)

\* path_read_bytes that downloads a second time after a failed download
path_read_bytes_Retry(b, path) ==
    LET res == download_files(b, path) IN
    IF res.error \/ ~res.has_content
    THEN Done(Raise("FileNotFoundError"),
              <<Call("download_files", path), Call("download_files", path)>>, b)
    ELSE Done(BytesV(res.content), <<Call("download_files", path)>>, b)

path_read_bytes(b, path) ==
    LET res == download_files(b, path) IN
    IF res.error \/ ~res.has_content
    THEN Done(Raise("FileNotFoundError"), <<Call("download_files", path)>>, b)
    ELSE Done(BytesV(res.content), <<Call("download_files", path)>>, b)

\* Whether a byte string is valid UTF-8, for the one- and two-byte forms (the
\* modelled byte strings hold no lead byte of a longer form).
RECURSIVE Utf8Valid(_)
Utf8Valid(bytes) ==
    IF bytes = <<>> THEN TRUE
    ELSE IF Head(bytes) < 128 THEN Utf8Valid(Tail(bytes))
    ELSE /\ Head(bytes) \in 194..223
         /\ Len(bytes) >= 2
         /\ bytes[2] \in 128..191
         /\ Utf8Valid(Tail(Tail(bytes)))

\* bytes.decode("utf-8") of a valid byte string: its code points
RECURSIVE Utf8Decode(_)
Utf8Decode(bytes) ==
    IF bytes = <<>> THEN <<>>
    ELSE IF Head(bytes) < 128 THEN <<Head(bytes)>> \o Utf8Decode(Tail(bytes))
    ELSE <<(Head(bytes) - 192) * 64 + (bytes[2] - 128)>> \o Utf8Decode(Tail(Tail(bytes)))

TextV(text) == [kind |-> "text", text |-> text]

path_read_text(b, path) ==
    LET res == download_files(b, path) IN
    IF res.error \/ ~res.has_content
    THEN Done(Raise("FileNotFoundError"), <<Call("download_files", path)>>, b)
    ELSE IF Utf8Valid(res.content)
    THEN Done(TextV(Utf8Decode(res.content)), <<Call("download_files", path)>>, b)
    ELSE Done(Raise("UnicodeDecodeError"), <<Call("download_files", path)>>, b)

\* path_write_bytes that stores the bytes through the text primitive
path_write_bytes_AsText(b, path, data) ==
    Done(NoneV, <<Call("write", path)>>, write(b, path, data))

path_write_bytes(b, path, data) ==
    Done(NoneV, <<Call("upload_files", path)>>, upload_files(b, path, data))

path_write_text(b, path, text) ==
    Done(NoneV, <<Call("write", path)>>, write(b, path, text))

RECURSIVE InfoPaths(_)
InfoPaths(infos) ==
    IF infos = <<>> THEN <<>> ELSE <<Head(infos).path>> \o InfoPaths(Tail(infos))

\* the paths of infos, each once
RECURSIVE DistinctPaths(_)
DistinctPaths(infos) ==
    IF infos = <<>> THEN <<>>
    ELSE LET rest == DistinctPaths(SubSeq(infos, 1, Len(infos) - 1))
             last == infos[Len(infos)].path
         IN  IF \E i \in 1..Len(rest) : rest[i] = last THEN rest ELSE Append(rest, last)

\* path_iterdir that drops the entries whose path was already returned
path_iterdir_Distinct(b, path) ==
    Done(PathsV(DistinctPaths(ls_info(b, path))), <<Call("ls_info", path)>>, b)

path_iterdir(b, path) ==
    Done(PathsV(InfoPaths(ls_info(b, path))), <<Call("ls_info", path)>>, b)

\* path_mkdir that uploads an empty marker file for the directory
path_mkdir_Marker(b, path, parents, exist_ok) ==
    IF ~exist_ok THEN Done(Raise("NotImplementedError: mkdir with exist_ok=False is not supported"), <<>>, b)
    ELSE Done(NoneV, <<Call("upload_files", path)>>, upload_files(b, path, NoBytes))

path_mkdir(b, path, parents, exist_ok) ==
    IF ~exist_ok THEN Done(Raise("NotImplementedError: mkdir with exist_ok=False is not supported"), <<>>, b)
    ELSE Done(NoneV, <<>>, b)

path_unlink(b, path) == Done(Raise("NotImplementedError: unlink is not supported"), <<>>, b)

path_rmdir(b, path) == Done(Raise("NotImplementedError: rmdir is not supported"), <<>>, b)

path_rename(b, path, target) == Done(Raise("NotImplementedError: rename is not supported"), <<>>, b)

path_is_symlink(b, path) == Done(BoolV(FALSE), <<>>, b)

\* 0o755 and 0o644
DirMode == 493

FileMode == 420

\* StatResult.dir_stat(mode, mtime) and StatResult.file_stat(size, mode, mtime)
StatV(type, size, mode) ==
    [kind |-> "stat", type |-> type, size |-> size, mode |-> mode, mtime |-> 0]

\* path_stat that asks the backend's read primitive for the content
path_stat_UsesRead(b, path) ==
    IF path = Root THEN Done(StatV("dir", 0, DirMode), <<>>, b)
    ELSE LET res == download_files(b, path) IN
         IF res.error \/ ~res.has_content
         THEN Done(Raise("FileNotFoundError"), <<Call("read", path)>>, b)
         ELSE Done(StatV("file", Len(res.content), FileMode), <<Call("read", path)>>, b)

path_stat(b, path) ==
    IF path = Root THEN Done(StatV("dir", 0, DirMode), <<>>, b)
    ELSE LET parent_infos == ls_info(b, Parent(path)) IN
         IF AnyPath(parent_infos, path)
         THEN LET info == FirstWithPath(parent_infos, path) IN
              IF InfoIsDir(info)
              THEN Done(StatV("dir", 0, DirMode), <<Call("ls_info", Parent(path))>>, b)
              ELSE Done(StatV("file", IF info.has_size THEN info.size ELSE 0, FileMode),
                        <<Call("ls_info", Parent(path))>>, b)
         ELSE LET res == download_files(b, path) IN
              IF res.error \/ ~res.has_content
              THEN Done(Raise("FileNotFoundError"),
                        <<Call("ls_info", Parent(path)), Call("download_files", path)>>, b)
              ELSE Done(StatV("file", Len(res.content), FileMode),
                        <<Call("ls_info", Parent(path)), Call("download_files", path)>>, b)

\* str(path) without its leading "/", for a path of one or two components
RelStr(path) ==
    IF path = <<>> THEN ""
    ELSE IF Len(path) = 1 THEN path[1]
    ELSE path[1] \o "/" \o path[2]

\* str(path) of an absolute path
PathStr(path) == "/" \o RelStr(path)

StrV(text) == [kind |-> "str", text |-> text]

path_resolve(b, path) == Done(StrV(PathStr(path)), <<>>, b)

\* rooted: str(path) starts with "/"; a relative path is given by its components
path_absolute(b, path, rooted) ==
    IF rooted THEN Done(StrV(PathStr(path)), <<>>, b)
    ELSE Done(StrV("/" \o RelStr(path)), <<>>, b)

\* getenv(key, default=None) returns the default
getenv(b, key, default) == Done(default, <<>>, b)

get_environ(b) == Done([kind |-> "environ", names |-> {}], <<>>, b)

\* The adapter operations a script can reach through pathlib.
QueryOps ==
    {"path_exists", "path_is_file", "path_is_dir", "path_read_bytes", "path_read_text", "path_iterdir",
     "path_stat", "path_is_symlink"}

WriteOps == {"path_write_bytes", "path_write_text"}

\* Dispatch of one adapter call, as the engine makes it on os=_MontyOS(backend).
OsCall(b, op, path, data) ==
    CASE op = "path_exists"      -> path_exists(b, path)
      [] op = "path_is_file"     -> path_is_file(b, path)
      [] op = "path_is_dir"      -> path_is_dir(b, path)
      [] op = "path_read_bytes"  -> path_read_bytes(b, path)
      [] op = "path_read_text"   -> path_read_text(b, path)
      [] op = "path_iterdir"     -> path_iterdir(b, path)
      [] op = "path_stat"        -> path_stat(b, path)
      [] op = "path_is_symlink"  -> path_is_symlink(b, path)
      [] op = "path_write_bytes" -> path_write_bytes(b, path, data)
      [] op = "path_write_text"  -> path_write_text(b, path, data)

(***************************************************************************)
(* Values, exceptions and results.                                         *)
(***************************************************************************)
IntVal(n) == [t |-> "int", v |-> n]

NoneVal == [t |-> "none", v |-> 0]

\* The values the modelled scripts print, and the values of their last expression.
PrintValues == {IntVal(1), IntVal(2)}

FinalValues == {IntVal(2), NoneVal}

\* str(value)
PyStr(val) == IF val.t = "none" THEN "None" ELSE ToString(val.v)

\* "\n".join(strs)
RECURSIVE JoinLines(_)
JoinLines(strs) ==
    IF strs = <<>> THEN ""
    ELSE IF Len(strs) = 1 THEN strs[1]
    ELSE strs[1] \o "\n" \o JoinLines(Tail(strs))

Exc(cls, msg) == [cls |-> cls, msg |-> msg]

\* The exception classes of pydantic_monty derive from MontyError.
IsMontyError(e) == e.cls \in {"MontyError", "MontySyntaxError", "MontyRuntimeError", "MontyTypingError"}

\* What Monty(code, ...) raises for a script it cannot compile.
ConstructErrors == {Exc("MontySyntaxError", "SyntaxError: invalid syntax")}

\* What m.run(...) raises: an exception of the script, or the expiry of
\* limits["max_duration_secs"] when the limit is set.
RunErrors(lim) ==
    {Exc("MontyRuntimeError", "ZeroDivisionError: division by zero")}
        \cup (IF lim.has_max THEN {Exc("MontyRuntimeError", "TimeoutError: time limit exceeded")} ELSE {})

\* What a backend factory raises when it cannot build a backend.
FactoryError == Exc("ValueError", "no backend for this runtime")

\* str(e)
ExcStr(e) == e.msg

TextResult(text) == [kind |-> "text", text |-> text]

\* ReplResponse(output=..., error=...); error defaults to None.
ReplResponse(output, has_error, error) ==
    [kind |-> "response", output |-> output, has_error |-> has_error, error |-> error]

\* An exception that leaves the entry point.
Raised(e) == [kind |-> "raised", exc |-> e]

NoResult == [kind |-> "none"]

NoLimits == [has_max |-> FALSE, max_duration_secs |-> 0]

NoExc == Exc("", "")

\* The Monty instance of an invocation: whether it was built, whether its
\* interpreter state was loaded from a state blob, whether m.run is in
\* progress, the steps the script took, and how construction and run ended
\* ("none", "construct_error", "run_error" or "value").
NoEngine ==
    [built |-> FALSE, restored |-> FALSE, running |-> FALSE, steps |-> 0,
     outcome |-> "none", exc |-> NoExc, value |-> NoneVal, emitted |-> <<>>]

NoOp == [op |-> "none"]

(***************************************************************************)
(* Inputs.                                                                 *)
(***************************************************************************)
NoTimeout == [has |-> FALSE, secs |-> 0]

Secs(n) == [has |-> TRUE, secs |-> n]

Timeouts == {NoTimeout, Secs(-1), Secs(0), Secs(5), Secs(999999)}

Tools == {"monty_tool", "repl", "fs_tool"}

\* The "repl_state" field of runtime.state: missing, a blob an earlier run
\* produced, or a blob that cannot be restored.
ReplStates == {"missing", "valid", "corrupt"}

\* How the middleware was built: backend given as a factory or as an
\* instance, whether the factory raises, whether the backend implements
\* repl (is a MontyREPL), whether a foreign function is configured.
Config(f, r, x, e) == [factory |-> f, factory_raises |-> r, exec |-> x, ext |-> e]

Configs ==
    {Config(FALSE, FALSE, FALSE, FALSE), Config(FALSE, FALSE, TRUE, TRUE),
     Config(TRUE, FALSE, FALSE, TRUE), Config(TRUE, FALSE, TRUE, FALSE),
     Config(TRUE, TRUE, FALSE, FALSE)}

\* The paths and data the modelled scripts use.
ScriptCalls ==
    {<<"path_exists", Root>>, <<"path_is_file", <<"a.txt">>>>,
     <<"path_read_bytes", <<"a.txt">>>>, <<"path_write_bytes", <<"a.txt">>>>}

ScriptData == <<111, 107>>

\* The backend of the unit tests: "/" lists /a.txt, which holds b"hi".
TestBackend ==
    [ls    |-> [p \in Paths |-> IF p = Root THEN <<Info(<<"a.txt">>, "file")>> ELSE <<>>],
     files |-> [p \in Paths |-> IF p = <<"a.txt">> THEN DlOk(<<104, 105>>) ELSE DlNotFound]]

RECURSIVE CallNames(_)
CallNames(calls) ==
    IF calls = <<>> THEN <<>> ELSE <<Head(calls)[1]>> \o CallNames(Tail(calls))

(***************************************************************************)
(* MontyMiddleware._create_repl_tool._run_monty                            *)
(***************************************************************************)
\* f"Error: timeout must be positive, got {timeout}."
TimeoutNotPositive(secs) == "Error: timeout must be positive, got " \o ToString(secs) \o "."

\* the early return with `timeout < 0` for `timeout <= 0`
RunMontyRejects_ZeroAccepted(timeout) == timeout.has /\ timeout.secs < 0

\* lines 291-295: the limits, and the early return on a non-positive timeout
RunMontyRejects(timeout) == timeout.has /\ timeout.secs <= 0

LimitsFor(timeout) ==
    IF timeout.has THEN [has_max |-> TRUE, max_duration_secs |-> timeout.secs] ELSE NoLimits

\* _run_monty returning the printed lines followed by the final value
RunMontyOk_WithValue(out, value) == JoinLines(Append(out, PyStr(value)))

\* what _run_monty returns when m.run returned
RunMontyOk(out, value) == JoinLines(out)

\* what _run_monty does with an exception e raised by Monty(...) or m.run(...):
\* `except pydantic_monty.MontyError as e: return str(e)`
RunMontyCatch(e) == IF IsMontyError(e) THEN TextResult(ExcStr(e)) ELSE Raised(e)

(***************************************************************************)
(* MontyREPL.repl                                                          *)
(***************************************************************************)
\* MontyREPL.repl without its `except Exception`: the exception leaves repl
ReplCatch_Reraise(e) == Raised(e)

\* `except Exception as e: return ReplResponse(output="", error=str(e))`
ReplCatch(e) == ReplResponse("", TRUE, ExcStr(e))

\* `return ReplResponse(output=str(result))`
ReplOk(value) == ReplResponse(PyStr(value), FALSE, "")

(***************************************************************************)
(* The repl tool of FilesystemMiddleware, from the specification and       *)
(* test_repl_tool.py: it validates the timeout, resolves the backend,      *)
(* checks that the backend implements repl, calls backend.repl (here       *)
(* MontyREPL.repl) and formats the ReplResponse.                           *)
(***************************************************************************)
\* The configured ceiling of the timeout, in seconds.
MaxReplTimeout == 3600

FsTimeoutTooLarge(secs) ==
    "Error: timeout " \o ToString(secs) \o "s exceeds maximum allowed ("
        \o ToString(MaxReplTimeout) \o "s)."

ReplNotAvailable == "Error: REPL evaluation not available for this backend."

FsRejects(timeout) == timeout.has /\ (timeout.secs <= 0 \/ timeout.secs > MaxReplTimeout)

FsRejection(timeout) ==
    IF timeout.secs <= 0 THEN TimeoutNotPositive(timeout.secs) ELSE FsTimeoutTooLarge(timeout.secs)

\* success: the output as is; failure: "<output>\n[Error]\n<error>", or the
\* error alone when there is no output
FormatReplResponse(resp) ==
    IF resp.has_error
    THEN IF resp.output # "" THEN resp.output \o "\n[Error]\n" \o resp.error ELSE resp.error
    ELSE resp.output

\* what the caller of MontyREPL.repl gets: the tool formats the response
Deliver(tool, resp) == IF tool = "fs_tool" THEN TextResult(FormatReplResponse(resp)) ELSE resp

\* The two concurrent invocations of the repl tool.
Ids == {1, 2}

\* runtime.state["repl_state"] of the conversation of each invocation
ConvState == <<"valid", "corrupt">>

\* the locals of a call of _run_monty that has not started
IdleInvocation(i) ==
    [pc |-> "idle", code_ok |-> TRUE, timeout |-> NoTimeout, state |-> ConvState[i],
     limits |-> NoLimits, built |-> FALSE, steps |-> 0, emitted |-> <<>>, exc |-> NoExc,
     result |-> NoResult]

\* no call of _run_monty is in flight
NoConcurrency ==
    /\ invocations = [i \in Ids |-> IdleInvocation(i)]
    /\ result_list = [i \in Ids |-> <<>>]

\* no filesystem method of MontyREPL has been called
NoProxy ==
    /\ wrapped_calls = <<>>
    /\ twin_calls = <<>>
    /\ proxied = [method |-> "none"]

\* MediaTracker.__init__
NewTracker ==
    /\ images = <<>>
    /\ videos = <<>>
    /\ next_image_id = 1
    /\ next_video_id = 1
    /\ media_op = [op |-> "init"]

\* active_vision_task = None
NoTask == 0

\* python_bridge as imported: agent = None, active_vision_task = None
NoBridge ==
    /\ agent = FALSE
    /\ active_vision_task = NoTask
    /\ tasks = <<>>

(***************************************************************************)
(* The state machine.                                                      *)
(***************************************************************************)
Init ==
    /\ backend = TestBackend
    /\ cfg \in Configs
    /\ state \in ReplStates
    /\ pc = "idle"
    /\ req = [tool |-> "repl", code_ok |-> TRUE, timeout |-> NoTimeout]
    /\ limits = NoLimits
    /\ resolved = FALSE
    /\ engine = NoEngine
    /\ printed = <<>>
    /\ trace = <<>>
    /\ result = NoResult
    /\ lastOp = NoOp
    /\ NoConcurrency
    /\ NoBridge
    /\ NoProxy
    /\ NewTracker

\* A caller invokes one of the entry points; the previous invocation, if
\* any, has returned.  What the FilesystemMiddleware tool does when its
\* backend factory raises is not specified, so it is not invoked with one.
Invoke(tool, code_ok, timeout) ==
    /\ pc \in {"idle", "returned"}
    /\ tool = "fs_tool" => ~(cfg.factory /\ cfg.factory_raises)
    /\ req' = [tool |-> tool, code_ok |-> code_ok, timeout |-> timeout]
    /\ pc' = IF tool = "repl" THEN "construct" ELSE "validate"
    /\ limits' = NoLimits
    /\ resolved' = FALSE
    /\ engine' = NoEngine
    /\ printed' = <<>>
    /\ trace' = <<>>
    /\ result' = NoResult
    /\ lastOp' = NoOp
    /\ UNCHANGED <<backend, cfg, state>>
    /\ UNCHANGED <<concVars, visionVars, proxyVars, mediaVars>>

\* _run_monty, lines 291-295
RunMontyValidate ==
    /\ pc = "validate" /\ req.tool = "monty_tool"
    /\ IF RunMontyRejects(req.timeout)
       THEN /\ result' = TextResult(TimeoutNotPositive(req.timeout.secs))
            /\ pc' = "returned"
            /\ UNCHANGED limits
       ELSE /\ limits' = LimitsFor(req.timeout)
            /\ pc' = "resolve"
            /\ UNCHANGED result
    /\ UNCHANGED <<backend, cfg, state, req, resolved, engine, printed, trace, lastOp>>
    /\ UNCHANGED <<concVars, visionVars, proxyVars, mediaVars>>

\* the timeout validation of the FilesystemMiddleware tool
FsValidate ==
    /\ pc = "validate" /\ req.tool = "fs_tool"
    /\ IF FsRejects(req.timeout)
       THEN /\ result' = TextResult(FsRejection(req.timeout))
            /\ pc' = "returned"
       ELSE /\ pc' = "resolve"
            /\ UNCHANGED result
    /\ UNCHANGED <<backend, cfg, state, req, limits, resolved, engine, printed, trace, lastOp>>
    /\ UNCHANGED <<concVars, visionVars, proxyVars, mediaVars>>

\* _get_backend called a second time for the adapter: the factory runs twice
GetBackend_Twice ==
    /\ pc = "resolve"
    /\ trace' = IF cfg.factory THEN trace \o <<"factory", "factory">> ELSE trace
    /\ IF cfg.factory /\ cfg.factory_raises
       THEN /\ result' = Raised(FactoryError)
            /\ pc' = "returned"
            /\ UNCHANGED resolved
       ELSE /\ resolved' = TRUE
            /\ pc' = IF req.tool = "fs_tool" THEN "capability" ELSE "construct"
            /\ UNCHANGED result
    /\ UNCHANGED <<backend, cfg, state, req, limits, engine, printed, lastOp>>
    /\ UNCHANGED <<concVars, visionVars, proxyVars, mediaVars>>

\* _get_backend: a callable backend is called with the runtime, an instance
\* is used as it is.  _run_monty calls it outside any try (line 297).
GetBackend ==
    /\ pc = "resolve"
    /\ trace' = IF cfg.factory THEN Append(trace, "factory") ELSE trace
    /\ IF cfg.factory /\ cfg.factory_raises
       THEN /\ result' = Raised(FactoryError)
            /\ pc' = "returned"
            /\ UNCHANGED resolved
       ELSE /\ resolved' = TRUE
            /\ pc' = IF req.tool = "fs_tool" THEN "capability" ELSE "construct"
            /\ UNCHANGED result
    /\ UNCHANGED <<backend, cfg, state, req, limits, engine, printed, lastOp>>
    /\ UNCHANGED <<concVars, visionVars, proxyVars, mediaVars>>

\* the capability check of the FilesystemMiddleware tool
FsCapability ==
    /\ pc = "capability"
    /\ IF cfg.exec
       THEN /\ pc' = "construct"
            /\ UNCHANGED result
       ELSE /\ result' = TextResult(ReplNotAvailable)
            /\ pc' = "returned"
    /\ UNCHANGED <<backend, cfg, state, req, limits, resolved, engine, printed, trace, lastOp>>
    /\ UNCHANGED <<concVars, visionVars, proxyVars, mediaVars>>

\* _run_monty refusing a backend that does not implement repl, as the
\* delegating tool does, instead of constructing the engine
RunMontyConstruct_CapabilityCheck ==
    /\ pc = "construct" /\ req.tool = "monty_tool"
    /\ IF cfg.exec
       THEN /\ trace' = Append(trace, "Monty")
            /\ IF req.code_ok
               THEN /\ engine' = [NoEngine EXCEPT !.built = TRUE]
                    /\ pc' = "constructed"
                    /\ UNCHANGED result
               ELSE /\ \E e \in ConstructErrors :
                         /\ result' = RunMontyCatch(e)
                         /\ engine' = [NoEngine EXCEPT !.outcome = "construct_error", !.exc = e]
                    /\ pc' = "returned"
       ELSE /\ result' = TextResult(ReplNotAvailable)
            /\ pc' = "returned"
            /\ UNCHANGED <<engine, trace>>
    /\ UNCHANGED <<backend, cfg, state, req, limits, resolved, printed, lastOp>>
    /\ UNCHANGED <<concVars, visionVars, proxyVars, mediaVars>>

\* _run_monty loading the interpreter from runtime.state["repl_state"]
\* without guarding the load: a blob that cannot be restored raises
RunMontyConstruct_UnguardedRestore ==
    /\ pc = "construct" /\ req.tool = "monty_tool"
    /\ trace' = Append(trace, "Monty")
    /\ IF state = "corrupt"
       THEN /\ result' = Raised(Exc("ValueError", "cannot restore state"))
            /\ pc' = "returned"
            /\ UNCHANGED engine
       ELSE IF req.code_ok
       THEN /\ engine' = [NoEngine EXCEPT !.built = TRUE, !.restored = (state = "valid")]
            /\ pc' = "constructed"
            /\ UNCHANGED result
       ELSE /\ \E e \in ConstructErrors :
                 /\ result' = RunMontyCatch(e)
                 /\ engine' = [NoEngine EXCEPT !.outcome = "construct_error", !.exc = e]
            /\ pc' = "returned"
    /\ UNCHANGED <<backend, cfg, state, req, limits, resolved, printed, lastOp>>
    /\ UNCHANGED <<concVars, visionVars, proxyVars, mediaVars>>

\* _run_monty whose except clause around Monty(code, ...) does not return:
\* the error text is kept and the run step is entered all the same
RunMontyConstruct_FallThrough ==
    /\ pc = "construct" /\ req.tool = "monty_tool"
    /\ trace' = Append(trace, "Monty")
    /\ pc' = "constructed"
    /\ IF req.code_ok
       THEN /\ engine' = [NoEngine EXCEPT !.built = TRUE]
            /\ UNCHANGED result
       ELSE \E e \in ConstructErrors :
                 /\ result' = RunMontyCatch(e)
                 /\ engine' = [NoEngine EXCEPT !.outcome = "construct_error", !.exc = e]
    /\ UNCHANGED <<backend, cfg, state, req, limits, resolved, printed, lastOp>>
    /\ UNCHANGED <<concVars, visionVars, proxyVars, mediaVars>>

\* _run_monty, lines 299-309: pydantic_monty.Monty(code, ...)
RunMontyConstruct ==
    /\ pc = "construct" /\ req.tool = "monty_tool"
    /\ trace' = Append(trace, "Monty")
    /\ IF req.code_ok
       THEN /\ engine' = [NoEngine EXCEPT !.built = TRUE]
            /\ pc' = "constructed"
            /\ UNCHANGED result
       ELSE /\ \E e \in ConstructErrors :
                 /\ result' = RunMontyCatch(e)
                 /\ engine' = [NoEngine EXCEPT !.outcome = "construct_error", !.exc = e]
            /\ pc' = "returned"
    /\ UNCHANGED <<backend, cfg, state, req, limits, resolved, printed, lastOp>>
    /\ UNCHANGED <<concVars, visionVars, proxyVars, mediaVars>>

\* MontyREPL.repl, lines 201-215: Monty(code, ...), then the limits
ReplConstruct ==
    /\ pc = "construct" /\ req.tool \in {"repl", "fs_tool"}
    /\ trace' = Append(trace, "Monty")
    /\ IF req.code_ok
       THEN /\ engine' = [NoEngine EXCEPT !.built = TRUE]
            /\ limits' = LimitsFor(req.timeout)
            /\ pc' = "constructed"
            /\ UNCHANGED result
       ELSE /\ \E e \in ConstructErrors :
                 /\ result' = Deliver(req.tool, ReplCatch(e))
                 /\ engine' = [NoEngine EXCEPT !.outcome = "construct_error", !.exc = e]
            /\ pc' = "returned"
            /\ UNCHANGED limits
    /\ UNCHANGED <<backend, cfg, state, req, resolved, printed, lastOp>>
    /\ UNCHANGED <<concVars, visionVars, proxyVars, mediaVars>>

\* m.run(os=_MontyOS(backend), limits=limits, ...) is entered
CallRun ==
    /\ pc = "constructed"
    /\ trace' = Append(trace, "run")
    /\ engine' = [engine EXCEPT !.running = TRUE]
    /\ pc' = "run"
    /\ UNCHANGED <<backend, cfg, state, req, limits, resolved, printed, result, lastOp>>
    /\ UNCHANGED <<concVars, visionVars, proxyVars, mediaVars>>

\* the script prints a value: _run_monty's print_callback appends str(value);
\* MontyREPL.repl passes no print_callback.  engine.emitted is the values the
\* engine handed to the print_callback, in order.
StepPrint(value) ==
    /\ pc = "run" /\ engine.steps < MaxSteps
    /\ trace' = Append(trace, "print")
    /\ printed' = IF req.tool = "monty_tool" THEN Append(printed, PyStr(value)) ELSE printed
    /\ engine' = [engine EXCEPT !.steps = @ + 1,
                                !.emitted = IF req.tool = "monty_tool" THEN Append(@, value) ELSE @]
    /\ UNCHANGED <<backend, cfg, state, pc, req, limits, resolved, result, lastOp>>
    /\ UNCHANGED <<concVars, visionVars, proxyVars, mediaVars>>

\* the script uses pathlib: the engine calls the adapter
StepOs(op, path) ==
    /\ pc = "run" /\ engine.steps < MaxSteps
    /\ LET r == OsCall(backend, op, path, ScriptData) IN
        /\ backend' = r.backend
        /\ trace' = trace \o CallNames(r.calls)
        /\ lastOp' = [op |-> op, path |-> path, arg |-> ScriptData, ret |-> r.ret, calls |-> r.calls]
    /\ engine' = [engine EXCEPT !.steps = @ + 1]
    /\ UNCHANGED <<cfg, state, pc, req, limits, resolved, printed, result>>
    /\ UNCHANGED <<concVars, visionVars, proxyVars, mediaVars>>

\* the script calls a foreign function
StepForeign ==
    /\ pc = "run" /\ engine.steps < MaxSteps
    /\ cfg.ext
    /\ trace' = Append(trace, "foreign")
    /\ engine' = [engine EXCEPT !.steps = @ + 1]
    /\ UNCHANGED <<backend, cfg, state, pc, req, limits, resolved, printed, result, lastOp>>
    /\ UNCHANGED <<concVars, visionVars, proxyVars, mediaVars>>

\* m.run raises: an uncaught exception of the script, or the time limit
RunRaises(e) ==
    /\ pc = "run"
    /\ e \in RunErrors(limits)
    /\ result' = IF req.tool = "monty_tool" THEN RunMontyCatch(e)
                 ELSE Deliver(req.tool, ReplCatch(e))
    /\ engine' = [engine EXCEPT !.running = FALSE, !.outcome = "run_error", !.exc = e]
    /\ pc' = "returned"
    /\ UNCHANGED <<backend, cfg, state, req, limits, resolved, printed, trace, lastOp>>
    /\ UNCHANGED <<concVars, visionVars, proxyVars, mediaVars>>

\* m.run returns the value of the script's last expression
RunReturns(value) ==
    /\ pc = "run"
    /\ result' = IF req.tool = "monty_tool" THEN TextResult(RunMontyOk(printed, value))
                 ELSE Deliver(req.tool, ReplOk(value))
    /\ engine' = [engine EXCEPT !.running = FALSE, !.outcome = "value", !.value = value]
    /\ pc' = "returned"
    /\ UNCHANGED <<backend, cfg, state, req, limits, resolved, printed, trace, lastOp>>
    /\ UNCHANGED <<concVars, visionVars, proxyVars, mediaVars>>

AllRunErrors == RunErrors([has_max |-> TRUE, max_duration_secs |-> 1])

Next ==
    \/ \E tool \in Tools, code_ok \in BOOLEAN, timeout \in Timeouts : Invoke(tool, code_ok, timeout)
    \/ RunMontyValidate
    \/ FsValidate
    \/ GetBackend
    \/ FsCapability
    \/ RunMontyConstruct
    \/ ReplConstruct
    \/ CallRun
    \/ \E value \in PrintValues : StepPrint(value)
    \/ \E call \in ScriptCalls : StepOs(call[1], call[2])
    \/ StepForeign
    \/ \E e \in AllRunErrors : RunRaises(e)
    \/ \E value \in FinalValues : RunReturns(value)

Spec == Init /\ [][Next]_vars

(***************************************************************************)
(* The adapter on its own: any backend, any operation, any path.           *)
(***************************************************************************)
\* The listings a backend may give for a path: entries for the path's
\* children, with or without the optional keys; a file path may list itself.
LsChoices(path) ==
    CASE path = Root ->
            {<<>>}
            \cup {<<Info(<<"a.txt">>, k)>> : k \in EntryKinds}
            \cup {<<Info(<<"d">>, k)>> : k \in EntryKinds}
            \cup {<<Info(<<"a.txt">>, "file"), Info(<<"d">>, "dir")>>,
                  <<Info(<<"a.txt">>, "noflag"), Info(<<"d">>, "noflag")>>,
                  <<Info(<<"a.txt">>, "dir"), Info(<<"d">>, "file")>>}
            \cup {<<Info(<<"a.txt">>, "file"), Info(<<"a.txt">>, "dir")>>,
                  <<Info(<<"d">>, "dir"), Info(<<"a.txt">>, "noflag"), Info(<<"d">>, "file")>>}
      [] path = <<"d">> -> {<<>>, <<Info(<<"d", "b">>, "file")>>}
      [] path = <<"a.txt">> -> {<<>>, <<Info(<<"a.txt">>, "file")>>}
      [] OTHER -> {<<>>}

DlChoices(path) ==
    IF Len(path) = 1 /\ path[1] = "a.txt" THEN {DlNotFound, DlNull, DlOk(<<104, 105>>)}
    ELSE IF Len(path) = 2 THEN {DlNotFound, DlOk(<<255>>)}
    ELSE {DlOk(<<104, 105>>)}

Backends ==
    {[ls    |-> [p \in Paths |-> CASE p = Root -> r [] p = <<"d">> -> d
                                   [] p = <<"a.txt">> -> a [] OTHER -> <<>>],
      files |-> [p \in Paths |-> CASE p = Root -> fr [] p = <<"d">> -> DlNotFound
                                   [] p = <<"a.txt">> -> fa [] OTHER -> fb]] :
        r \in LsChoices(Root), d \in LsChoices(<<"d">>), a \in LsChoices(<<"a.txt">>),
        fr \in DlChoices(Root), fa \in DlChoices(<<"a.txt">>), fb \in DlChoices(<<"d", "b">>)}

InitOS ==
    /\ backend \in Backends
    /\ cfg = Config(FALSE, FALSE, FALSE, FALSE)
    /\ state = "missing"
    /\ pc = "idle"
    /\ req = [tool |-> "repl", code_ok |-> TRUE, timeout |-> NoTimeout]
    /\ limits = NoLimits
    /\ resolved = FALSE
    /\ engine = NoEngine
    /\ printed = <<>>
    /\ trace = <<>>
    /\ result = NoResult
    /\ lastOp = NoOp
    /\ NoConcurrency
    /\ NoBridge
    /\ NoProxy
    /\ NewTracker

\* one adapter operation on _MontyOS(backend)
OsStep(op, path, data) ==
    /\ LET r == OsCall(backend, op, path, data) IN
        /\ backend' = r.backend
        /\ lastOp' = [op |-> op, path |-> path, arg |-> data, ret |-> r.ret, calls |-> r.calls]
    /\ UNCHANGED toolVars
    /\ UNCHANGED <<concVars, visionVars, proxyVars, mediaVars>>

OsQuery == \E op \in QueryOps, path \in Paths : OsStep(op, path, NoBytes)

\* The paths written and the data written: bytes for path_write_bytes, code
\* points for path_write_text.
WritePaths == {<<"a.txt">>, <<"d", "b">>}

WriteData(op) == IF op = "path_write_bytes" THEN {<<104, 105>>, <<255>>} ELSE {<<233>>}

OsWrite == \E op \in WriteOps, path \in WritePaths : \E data \in WriteData(op) : OsStep(op, path, data)

\* mkdir, unlink, rmdir and rename: flag is exist_ok for mkdir (parents does
\* not matter to the adapter), target is the target of rename
OsChange(op, path, flag, target) ==
    /\ LET r == CASE op = "path_mkdir"  -> path_mkdir(backend, path, flag, flag)
                   [] op = "path_unlink" -> path_unlink(backend, path)
                   [] op = "path_rmdir"  -> path_rmdir(backend, path)
                   [] op = "path_rename" -> path_rename(backend, path, target)
       IN
        /\ backend' = r.backend
        /\ lastOp' = [op |-> op, path |-> path, arg |-> <<>>, exist_ok |-> flag,
                      ret |-> r.ret, calls |-> r.calls]
    /\ UNCHANGED toolVars
    /\ UNCHANGED <<concVars, visionVars, proxyVars, mediaVars>>

ChangeOps == {"path_mkdir", "path_unlink", "path_rmdir", "path_rename"}

OsUnsupported ==
    \E op \in ChangeOps, path \in Paths, flag \in BOOLEAN :
        /\ (op # "path_mkdir" => ~flag)
        /\ OsChange(op, path, flag, <<"d">>)

\* resolve, absolute, getenv and get_environ: flag is whether the path is
\* rooted (absolute) or whether a default is given (getenv)
PureOps == {"path_resolve", "path_absolute", "getenv", "get_environ"}

OsPure(op, path, flag) ==
    /\ LET r == CASE op = "path_resolve"  -> path_resolve(backend, path)
                   [] op = "path_absolute" -> path_absolute(backend, path, flag)
                   [] op = "getenv"        -> getenv(backend, "HOME", IF flag THEN StrV("x") ELSE NoneV)
                   [] op = "get_environ"   -> get_environ(backend)
       IN
        /\ backend' = r.backend
        /\ lastOp' = [op |-> op, path |-> path, arg |-> <<>>, rooted |-> flag,
                      ret |-> r.ret, calls |-> r.calls]
    /\ UNCHANGED toolVars
    /\ UNCHANGED <<concVars, visionVars, proxyVars, mediaVars>>

OsEnvironment ==
    \E op \in PureOps, flag \in BOOLEAN :
        /\ (op \in {"path_resolve", "get_environ"} => flag)
        /\ OsPure(op, <<"d", "b">>, flag)

NextOS == OsQuery \/ OsWrite \/ OsUnsupported \/ OsEnvironment

SpecOS == InitOS /\ [][NextOS]_vars

(***************************************************************************)
(* Two invocations of _run_monty interleaved (the tool called from two     *)
(* threads) on one MontyMiddleware with one backend instance.              *)
(***************************************************************************)
ConcTimeouts == {NoTimeout, Secs(0)}

\* what invocation i writes through pathlib
ConcData(i) == <<48 + i>>

ConcCalls == {"path_read_bytes", "path_write_bytes"}

\* a `result` list shared by all the calls of the tool
ResultList_OfTool(i) == 1

\* `result = []` is a local of the call: each call has its own list, and its
\* print_callback closes over that list
ResultList(i) == i

InitConc ==
    /\ backend = TestBackend
    /\ cfg = Config(FALSE, FALSE, FALSE, FALSE)
    /\ state = "missing"
    /\ pc = "idle"
    /\ req = [tool |-> "monty_tool", code_ok |-> TRUE, timeout |-> NoTimeout]
    /\ limits = NoLimits
    /\ resolved = FALSE
    /\ engine = NoEngine
    /\ printed = <<>>
    /\ trace = <<>>
    /\ result = NoResult
    /\ lastOp = NoOp
    /\ NoConcurrency
    /\ NoBridge
    /\ NoProxy
    /\ NewTracker

singleVars == <<cfg, state, pc, req, limits, resolved, engine, printed, trace, result>>

\* a caller (thread) enters _run_monty(code, timeout=..., runtime=...)
ConcInvoke(i, code_ok, timeout) ==
    /\ invocations[i].pc = "idle"
    /\ invocations' = [invocations EXCEPT ![i] =
            [invocations[i] EXCEPT !.pc = "validate", !.code_ok = code_ok, !.timeout = timeout]]
    /\ UNCHANGED <<backend, lastOp, result_list, singleVars, visionVars, proxyVars, mediaVars>>

\* lines 291-297: the timeout check, then self._get_backend(runtime), which
\* is the one backend instance of the middleware
ConcValidate(i) ==
    /\ invocations[i].pc = "validate"
    /\ LET c == invocations[i] IN
       invocations' = [invocations EXCEPT ![i] =
            IF RunMontyRejects(c.timeout)
            THEN [c EXCEPT !.pc = "returned",
                           !.result = TextResult(TimeoutNotPositive(c.timeout.secs))]
            ELSE [c EXCEPT !.pc = "construct", !.limits = LimitsFor(c.timeout)]]
    /\ UNCHANGED <<backend, lastOp, result_list, singleVars, visionVars, proxyVars, mediaVars>>

\* lines 299-317: m = Monty(code, ...); result = []; m.run(...) is entered
ConcConstruct(i) ==
    /\ invocations[i].pc = "construct"
    /\ IF invocations[i].code_ok
       THEN /\ invocations' = [invocations EXCEPT ![i] = [invocations[i] EXCEPT !.pc = "run", !.built = TRUE]]
            /\ result_list' = [result_list EXCEPT ![ResultList(i)] = <<>>]
       ELSE /\ \E e \in ConstructErrors :
                 invocations' = [invocations EXCEPT ![i] =
                     [invocations[i] EXCEPT !.pc = "returned", !.exc = e, !.result = RunMontyCatch(e)]]
            /\ UNCHANGED result_list
    /\ UNCHANGED <<backend, lastOp, singleVars, visionVars, proxyVars, mediaVars>>

\* the script of invocation i prints a value: its print_callback appends
ConcPrint(i, value) ==
    /\ invocations[i].pc = "run" /\ invocations[i].steps < MaxSteps
    /\ result_list' = [result_list EXCEPT ![ResultList(i)] = Append(@, PyStr(value))]
    /\ invocations' = [invocations EXCEPT ![i] =
            [invocations[i] EXCEPT !.steps = @ + 1, !.emitted = Append(@, value)]]
    /\ UNCHANGED <<backend, lastOp, singleVars, visionVars, proxyVars, mediaVars>>

\* the script of invocation i uses pathlib on the shared backend
ConcOs(i, op) ==
    /\ invocations[i].pc = "run" /\ invocations[i].steps < MaxSteps
    /\ LET r == OsCall(backend, op, <<"a.txt">>, ConcData(i)) IN
        /\ backend' = r.backend
        /\ lastOp' = [op |-> op, path |-> <<"a.txt">>, arg |-> ConcData(i),
                      ret |-> r.ret, calls |-> r.calls]
    /\ invocations' = [invocations EXCEPT ![i] = [invocations[i] EXCEPT !.steps = @ + 1]]
    /\ UNCHANGED <<result_list, singleVars, visionVars, proxyVars, mediaVars>>

\* m.run of invocation i raises: lines 324-325
ConcRaises(i, e) ==
    /\ invocations[i].pc = "run"
    /\ e \in RunErrors(invocations[i].limits)
    /\ invocations' = [invocations EXCEPT ![i] =
            [invocations[i] EXCEPT !.pc = "returned", !.exc = e, !.result = RunMontyCatch(e)]]
    /\ UNCHANGED <<backend, lastOp, result_list, singleVars, visionVars, proxyVars, mediaVars>>

\* m.run of invocation i returns: line 326
ConcReturns(i, value) ==
    /\ invocations[i].pc = "run"
    /\ invocations' = [invocations EXCEPT ![i] =
            [invocations[i] EXCEPT !.pc = "returned",
                      !.result = TextResult(RunMontyOk(result_list[ResultList(i)], value))]]
    /\ UNCHANGED <<backend, lastOp, result_list, singleVars, visionVars, proxyVars, mediaVars>>

NextConc ==
    \/ \E i \in Ids, code_ok \in BOOLEAN, timeout \in ConcTimeouts : ConcInvoke(i, code_ok, timeout)
    \/ \E i \in Ids : ConcValidate(i)
    \/ \E i \in Ids : ConcConstruct(i)
    \/ \E i \in Ids, value \in PrintValues : ConcPrint(i, value)
    \/ \E i \in Ids, op \in ConcCalls : ConcOs(i, op)
    \/ \E i \in Ids, e \in AllRunErrors : ConcRaises(i, e)
    \/ \E i \in Ids, value \in FinalValues : ConcReturns(i, value)

SpecConc == InitConc /\ [][NextConc]_vars

(***************************************************************************)
(* voice_vision_app/python_bridge.py: the /vision endpoint, its background *)
(* task, and the /chat websocket, on one asyncio event loop.               *)
(***************************************************************************)
\* The most tasks (vision tasks and websocket handlers) the loop ever holds.
MaxTasks == 4

Task(kind, status) == [kind |-> kind, status |-> status, cancel_requested |-> FALSE]

\* task.done()
TaskDone(t) == tasks[t].status = "done"

\* task.cancel(): a request; the task ends when the loop next runs it
Cancel(ts, t) == [ts EXCEPT ![t].cancel_requested = TRUE]

InitVision ==
    /\ backend = TestBackend
    /\ cfg = Config(FALSE, FALSE, FALSE, FALSE)
    /\ state = "missing"
    /\ pc = "idle"
    /\ req = [tool |-> "monty_tool", code_ok |-> TRUE, timeout |-> NoTimeout]
    /\ limits = NoLimits
    /\ resolved = FALSE
    /\ engine = NoEngine
    /\ printed = <<>>
    /\ trace = <<>>
    /\ result = NoResult
    /\ lastOp = NoOp
    /\ NoConcurrency
    /\ NoBridge
    /\ NoProxy
    /\ NewTracker

replVars == <<backend, lastOp, singleVars, concVars>>

\* lifespan: agent, backend = create_cli_agent(...)
Lifespan ==
    /\ ~agent
    /\ agent' = TRUE
    /\ UNCHANGED <<active_vision_task, tasks, replVars, proxyVars, mediaVars>>

\* POST /vision that starts a task without cancelling the previous one
ProcessVision_NoCancel ==
    /\ agent
    /\ Len(tasks) < MaxTasks
    /\ tasks' = Append(tasks, Task("vision", "running"))
    /\ active_vision_task' = Len(tasks) + 1
    /\ UNCHANGED <<agent, replVars, proxyVars, mediaVars>>

\* POST /vision: without an agent it returns an error and does nothing;
\* otherwise it cancels the active task unless that is done, and makes
\* asyncio.create_task(run_vision()) the active task.  The handler has no
\* await, so it runs in one step of the loop.
ProcessVision ==
    /\ agent
    /\ Len(tasks) < MaxTasks
    /\ LET cancelled == IF active_vision_task # NoTask /\ ~TaskDone(active_vision_task)
                        THEN Cancel(tasks, active_vision_task)
                        ELSE tasks
       IN  tasks' = Append(cancelled, Task("vision", "running"))
    /\ active_vision_task' = Len(tasks) + 1
    /\ UNCHANGED <<agent, replVars, proxyVars, mediaVars>>

\* run_vision ends: the stream is exhausted, or it raised, or the requested
\* CancelledError was delivered at its await; all three are caught or final
VisionTaskEnds(t) ==
    /\ tasks[t].kind = "vision" /\ tasks[t].status = "running"
    /\ tasks' = [tasks EXCEPT ![t].status = "done"]
    /\ UNCHANGED <<agent, active_vision_task, replVars, proxyVars, mediaVars>>

\* a client connects to /chat: websocket.accept(), then receive_text()
ChatConnect ==
    /\ Len(tasks) < MaxTasks
    /\ tasks' = Append(tasks, Task("chat", "receiving"))
    /\ UNCHANGED <<agent, active_vision_task, replVars, proxyVars, mediaVars>>

\* a text arrives: agent.astream(...) starts; without an agent the call
\* raises and the handler ends
ChatReceive(t) ==
    /\ tasks[t].kind = "chat" /\ tasks[t].status = "receiving"
    /\ tasks' = [tasks EXCEPT ![t].status = IF agent THEN "streaming" ELSE "done"]
    /\ UNCHANGED <<agent, active_vision_task, replVars, proxyVars, mediaVars>>

\* the stream of the turn ends and the answer is sent
ChatTurnEnds(t) ==
    /\ tasks[t].kind = "chat" /\ tasks[t].status = "streaming"
    /\ tasks' = [tasks EXCEPT ![t].status = "receiving"]
    /\ UNCHANGED <<agent, active_vision_task, replVars, proxyVars, mediaVars>>

\* the client disconnects: receive_text or send_json raises
ChatDisconnect(t) ==
    /\ tasks[t].kind = "chat" /\ tasks[t].status # "done"
    /\ tasks' = [tasks EXCEPT ![t].status = "done"]
    /\ UNCHANGED <<agent, active_vision_task, replVars, proxyVars, mediaVars>>

NextVision ==
    \/ Lifespan
    \/ ProcessVision
    \/ \E t \in 1..Len(tasks) : VisionTaskEnds(t)
    \/ ChatConnect
    \/ \E t \in 1..Len(tasks) : ChatReceive(t)
    \/ \E t \in 1..Len(tasks) : ChatTurnEnds(t)
    \/ \E t \in 1..Len(tasks) : ChatDisconnect(t)

SpecVision == InitVision /\ [][NextVision]_vars

(***************************************************************************)
(* MontyREPL as a backend: its filesystem methods forward to the wrapped   *)
(* backend.  A backend is any deterministic object: what it returns is a   *)
(* function of the call and of the calls it received before.  The same     *)
(* calls are made on a MontyREPL and, directly, on an identical backend.   *)
(***************************************************************************)
\* The most filesystem calls made in a behaviour.
MaxCalls == 2

\* def read(self, file_path, offset=0, limit=2000)
DefaultOffset == 0

DefaultLimit == 2000

\* path: str | None = None, glob: str | None = None
NoneStr == "<None>"

\* One call: the method, its arguments, and the names of the optional
\* arguments the caller left out.  Unused arguments are "" , 0 and FALSE.
FsCall(method, path, s1, s2, n1, n2, flag, omitted) ==
    [method |-> method, path |-> path, s1 |-> s1, s2 |-> s2, n1 |-> n1, n2 |-> n2,
     flag |-> flag, omitted |-> omitted]

ProxyMethods ==
    {"ls_info", "read", "write", "edit", "glob_info", "grep_raw", "upload_files", "download_files"}

\* the calls of test_monty_repl_proxies_backend_methods, and the same
\* methods with their optional arguments given
ProxyCalls ==
    {FsCall("ls_info", "/a", "", "", 0, 0, FALSE, {}),
     FsCall("read", "/f", "", "", 1, 2, FALSE, {}),
     FsCall("read", "/f", "", "", 0, 0, FALSE, {"offset", "limit"}),
     FsCall("read", "/f", "", "", 0, 2000, FALSE, {}),
     FsCall("write", "/w", "c", "", 0, 0, FALSE, {}),
     FsCall("edit", "/e", "o", "n", 0, 0, FALSE, {"replace_all"}),
     FsCall("edit", "/e", "o", "n", 0, 0, TRUE, {}),
     FsCall("glob_info", "", "*.py", "", 0, 0, FALSE, {"path"}),
     FsCall("glob_info", "/d", "*.py", "", 0, 0, FALSE, {}),
     FsCall("grep_raw", "", "p", "", 0, 0, FALSE, {"path", "glob"}),
     FsCall("grep_raw", "/d", "p", "*.py", 0, 0, FALSE, {}),
     FsCall("upload_files", "/u", "y", "", 0, 0, FALSE, {}),
     FsCall("download_files", "/d", "", "", 0, 0, FALSE, {})}

\* the parameters of a method's signature get their defaults when left out
Bind(call, offset, limit, replace_all, glob_path, grep_path, grep_glob) ==
    CASE call.method = "read" ->
            [call EXCEPT !.n1 = IF "offset" \in call.omitted THEN offset ELSE @,
                         !.n2 = IF "limit" \in call.omitted THEN limit ELSE @,
                         !.omitted = {}]
      [] call.method = "edit" ->
            [call EXCEPT !.flag = IF "replace_all" \in call.omitted THEN replace_all ELSE @,
                         !.omitted = {}]
      [] call.method = "glob_info" ->
            [call EXCEPT !.path = IF "path" \in call.omitted THEN glob_path ELSE @,
                         !.omitted = {}]
      [] call.method = "grep_raw" ->
            [call EXCEPT !.path = IF "path" \in call.omitted THEN grep_path ELSE @,
                         !.s2 = IF "glob" \in call.omitted THEN grep_glob ELSE @,
                         !.omitted = {}]
      [] OTHER -> [call EXCEPT !.omitted = {}]

\* the signatures of the backend's methods
BackendBind(call) == Bind(call, DefaultOffset, DefaultLimit, FALSE, "/", NoneStr, NoneStr)

\* the signatures of MontyREPL's methods
ReplBind(call) == Bind(call, DefaultOffset, DefaultLimit, FALSE, "/", NoneStr, NoneStr)

\* what a backend returns for a call, having received the calls of log
Respond(log, call) == [to |-> call, after |-> log]

\* a backend method called: the call is bound to the signature, answered
\* and remembered
BackendCall(log, call) ==
    [ret |-> Respond(log, BackendBind(call)), log |-> Append(log, BackendBind(call))]

\* MontyREPL.read that forwards the path only
Forward_PathOnly(call) ==
    IF call.method = "read"
    THEN <<[ReplBind(call) EXCEPT !.omitted = {"offset", "limit"}]>>
    ELSE <<ReplBind(call)>>

\* the calls a MontyREPL method makes on self._backend: the same-named
\* method with every bound argument passed on (optional ones by keyword)
Forward(call) == <<ReplBind(call)>>

\* a MontyREPL method called: it returns what its one call on the wrapped
\* backend returned
ReplMethod(log, call) == BackendCall(log, Forward(call)[1])

InitProxy ==
    /\ backend = TestBackend
    /\ cfg = Config(FALSE, FALSE, FALSE, FALSE)
    /\ state = "missing"
    /\ pc = "idle"
    /\ req = [tool |-> "repl", code_ok |-> TRUE, timeout |-> NoTimeout]
    /\ limits = NoLimits
    /\ resolved = FALSE
    /\ engine = NoEngine
    /\ printed = <<>>
    /\ trace = <<>>
    /\ result = NoResult
    /\ lastOp = NoOp
    /\ NoConcurrency
    /\ NoBridge
    /\ NoProxy
    /\ NewTracker

\* the same call on the MontyREPL and on the twin backend
ProxyCall(call) ==
    /\ Len(twin_calls) < MaxCalls
    /\ LET via    == ReplMethod(wrapped_calls, call)
           direct == BackendCall(twin_calls, call)
       IN  /\ wrapped_calls' = via.log
           /\ twin_calls' = direct.log
           /\ proxied' = [method |-> call.method, given |-> call, forwarded |-> Forward(call),
                          ret |-> via.ret, direct |-> direct.ret]
    /\ UNCHANGED <<replVars, visionVars, mediaVars>>

NextProxy == \E call \in ProxyCalls : ProxyCall(call)

SpecProxy == InitProxy /\ [][NextProxy]_vars

(***************************************************************************)
(* The MediaTracker of the command line input: images and videos pasted    *)
(* into the prompt, each with a numbered placeholder in the text.          *)
(***************************************************************************)
\* The largest id an added image or video is given.
MaxMedia == 3

DigitChars == <<"0", "1", "2", "3", "4", "5", "6", "7", "8", "9">>

\* The characters of f"{n}" for n >= 0.
RECURSIVE Decimal(_)
Decimal(n) ==
    IF n < Len(DigitChars) THEN <<DigitChars[n + 1]>>
    ELSE Append(Decimal(n \div Len(DigitChars)), DigitChars[(n % Len(DigitChars)) + 1])

\* \d
IsDigit(c) == \E d \in 1..Len(DigitChars) : DigitChars[d] = c

DigitValue(c) == (CHOOSE d \in 1..Len(DigitChars) : DigitChars[d] = c) - 1

\* int(match.group("id")) of a sequence of digits
RECURSIVE ParseInt(_)
ParseInt(digits) ==
    IF digits = <<>> THEN 0
    ELSE ParseInt(SubSeq(digits, 1, Len(digits) - 1)) * Len(DigitChars)
            + DigitValue(digits[Len(digits)])

\* A piece of the input text: the characters "[", kind, " ", digits, "]".
Token(kind, digits) == [kind |-> kind, digits |-> digits]

\* A piece of the input text without brackets.
Plain == [kind |-> "plain", digits |-> <<>>]

\* f"[image {n}]" and f"[video {n}]"
Placeholder(kind, n) == Token(kind, Decimal(n))

\* IMAGE_PLACEHOLDER_PATTERN and VIDEO_PLACEHOLDER_PATTERN on one token:
\* "[", the kind, a space, one or more digits, "]"
Matches(kind, token) ==
    /\ token.kind = kind
    /\ token.digits # <<>>
    /\ \A i \in 1..Len(token.digits) : IsDigit(token.digits[i])

\* {match.group(0) for match in PATTERN.finditer(text)}
FindAll(kind, text) == {text[i] : i \in {j \in 1..Len(text) : Matches(kind, text[j])}}

\* ImageData and VideoData: the placeholder is the only field the tracker uses
MediaData(placeholder) == [placeholder |-> placeholder]

\* [m for m in items if m.placeholder in placeholders]
Kept(items, placeholders) == SelectSeq(items, LAMBDA m : m.placeholder \in placeholders)

\* the loop over the surviving items: the largest id of a placeholder that
\* matches the pattern, 0 when there is none
RECURSIVE MaxId(_, _)
MaxId(kind, items) ==
    IF items = <<>> THEN 0
    ELSE LET rest == MaxId(kind, Tail(items))
             p    == Head(items).placeholder
             id   == ParseInt(p.digits)
         IN  IF ~Matches(kind, p) THEN rest
             ELSE IF id > rest THEN id ELSE rest

\* a counter that is set to the number of surviving items plus one
NextAfterSync_Count(kind, items, next) == Len(items) + 1

\* sync_to_text, lines 174-198: the counter is reset when nothing survives
\* and set past the largest surviving id otherwise
NextAfterSync(kind, items, next) ==
    LET reset  == IF items = <<>> THEN 1 ELSE next
        max_id == MaxId(kind, items)
    IN  IF max_id # 0 THEN max_id + 1 ELSE reset

\* The pieces the modelled texts are made of: the placeholders the tracker
\* hands out, "[image 01]", "[image ]" and text without brackets.
Tokens ==
    {Placeholder("image", n) : n \in 1..MaxMedia}
        \cup {Placeholder("video", n) : n \in 1..MaxMedia}
        \cup {Token("image", <<"0", "1">>), Token("image", <<>>), Plain}

\* The texts of at most two pieces.
Texts == {<<>>} \cup {<<t>> : t \in Tokens} \cup {<<t, u>> : t \in Tokens, u \in Tokens}

InitMedia ==
    /\ backend = TestBackend
    /\ cfg = Config(FALSE, FALSE, FALSE, FALSE)
    /\ state = "missing"
    /\ pc = "idle"
    /\ req = [tool |-> "repl", code_ok |-> TRUE, timeout |-> NoTimeout]
    /\ limits = NoLimits
    /\ resolved = FALSE
    /\ engine = NoEngine
    /\ printed = <<>>
    /\ trace = <<>>
    /\ result = NoResult
    /\ lastOp = NoOp
    /\ NoConcurrency
    /\ NoBridge
    /\ NoProxy
    /\ NewTracker

\* add_image(image_data) with a new ImageData object
add_image ==
    /\ next_image_id <= MaxMedia
    /\ LET placeholder == Placeholder("image", next_image_id) IN
        /\ images' = Append(images, MediaData(placeholder))
        /\ media_op' = [op |-> "add_image", ret |-> placeholder]
    /\ next_image_id' = next_image_id + 1
    /\ UNCHANGED <<videos, next_video_id>>
    /\ UNCHANGED <<replVars, visionVars, proxyVars>>

\* add_video(video_data) with a new VideoData object
add_video ==
    /\ next_video_id <= MaxMedia
    /\ LET placeholder == Placeholder("video", next_video_id) IN
        /\ videos' = Append(videos, MediaData(placeholder))
        /\ media_op' = [op |-> "add_video", ret |-> placeholder]
    /\ next_video_id' = next_video_id + 1
    /\ UNCHANGED <<images, next_image_id>>
    /\ UNCHANGED <<replVars, visionVars, proxyVars>>

clear ==
    /\ images' = <<>>
    /\ videos' = <<>>
    /\ next_image_id' = 1
    /\ next_video_id' = 1
    /\ media_op' = [op |-> "clear"]
    /\ UNCHANGED <<replVars, visionVars, proxyVars>>

sync_to_text(text) ==
    /\ LET image_placeholders == FindAll("image", text)
           video_placeholders == FindAll("video", text)
           kept_images        == Kept(images, image_placeholders)
           kept_videos        == Kept(videos, video_placeholders)
       IN  IF image_placeholders = {} /\ video_placeholders = {}
           THEN /\ images' = <<>>
                /\ videos' = <<>>
                /\ next_image_id' = 1
                /\ next_video_id' = 1
           ELSE /\ images' = kept_images
                /\ videos' = kept_videos
                /\ next_image_id' = NextAfterSync("image", kept_images, next_image_id)
                /\ next_video_id' = NextAfterSync("video", kept_videos, next_video_id)
    /\ media_op' = [op |-> "sync_to_text", text |-> text]
    /\ UNCHANGED <<replVars, visionVars, proxyVars>>

NextMedia ==
    \/ add_image
    \/ add_video
    \/ clear
    \/ \E text \in Texts : sync_to_text(text)

SpecMedia == InitMedia /\ [][NextMedia]_vars

(***************************************************************************)
(* Properties.                                                             *)
(***************************************************************************)
InTrace(event) == \E i \in 1..Len(trace) : trace[i] = event

BackendPrimitives == {"ls_info", "download_files", "upload_files", "write"}

TouchedBackend == \E i \in 1..Len(trace) : trace[i] \in BackendPrimitives

NonPositive(timeout) == timeout.has /\ timeout.secs <= 0

\* C1: an invocation of _run_monty with a timeout that is not None and is
\* <= 0 returns exactly "Error: timeout must be positive, got N."; in it the
\* backend factory is not called, no engine is constructed and no backend
\* primitive is called.
C1_NonPositiveTimeoutRejected ==
    (pc # "idle" /\ req.tool = "monty_tool" /\ NonPositive(req.timeout)) =>
        /\ pc \in {"validate", "returned"}
        /\ trace = <<>> /\ ~resolved /\ ~engine.built /\ lastOp = NoOp
        /\ pc = "returned" =>
              result = TextResult(IF req.timeout.secs = 0
                                  THEN "Error: timeout must be positive, got 0."
                                  ELSE "Error: timeout must be positive, got -1.")

C1_Witness ==
    /\ pc = "returned" /\ req.tool = "monty_tool" /\ req.timeout = Secs(-1)
    /\ cfg.factory /\ req.code_ok
    /\ result = TextResult("Error: timeout must be positive, got -1.")

\* C2: an invocation of the repl tool with a timeout above the configured
\* maximum returns at once an error text that says the timeout exceeds the
\* maximum allowed and names the maximum; the engine is neither constructed
\* nor run.
C2_CeilingEnforced ==
    (pc # "idle" /\ req.tool \in {"monty_tool", "fs_tool"}
        /\ req.timeout.has /\ req.timeout.secs > MaxReplTimeout) =>
        /\ pc \in {"validate", "returned"}
        /\ ~engine.built /\ ~InTrace("Monty") /\ ~InTrace("run")
        /\ pc = "returned" =>
              result = TextResult("Error: timeout 999999s exceeds maximum allowed (3600s).")

\* C3: when a script run by the repl tool fails after printing, the text
\* returned is the printed output, a line "[Error]", and the error message;
\* when it fails without output the text is the error message alone.
C3_PartialOutputPreserved ==
    (pc = "returned" /\ req.tool \in {"monty_tool", "fs_tool"} /\ engine.outcome = "run_error") =>
        result = TextResult(IF printed # <<>>
                            THEN JoinLines(printed) \o "\n[Error]\n" \o engine.exc.msg
                            ELSE engine.exc.msg)

\* C4: every invocation of the MontyMiddleware repl tool, succeeding or
\* not, returns a state update that sets "repl_state" to a str or bytes
\* value, so the field is not missing after an invocation.
C4_ReplStateWritten ==
    (pc = "returned" /\ req.tool = "monty_tool") =>
        (result.kind = "command" /\ state # "missing")

\* C5 as stated: when the backend resolved for a repl tool invocation does
\* not implement repl, the tool returns the fixed "REPL evaluation not
\* available" error and no engine is constructed or run in the invocation.
C5_UnsupportedBackendRejected ==
    (pc # "idle" /\ req.tool \in {"monty_tool", "fs_tool"} /\ resolved /\ ~cfg.exec) =>
        /\ ~engine.built /\ ~InTrace("Monty") /\ ~InTrace("run")
        /\ pc = "returned" =>
              result = TextResult("Error: REPL evaluation not available for this backend.")

\* C5 amended: the repl tool of FilesystemMiddleware, which delegates to
\* backend.repl, returns the fixed "REPL evaluation not available" error
\* and constructs no engine when the resolved backend does not implement
\* repl; the repl tool of MontyMiddleware runs its own engine and
\* constructs it for every resolved backend, implementing repl or not.
C5_CapabilityCheckInDelegatingTool ==
    /\ (pc # "idle" /\ req.tool = "fs_tool" /\ resolved /\ ~cfg.exec) =>
          /\ ~engine.built /\ ~InTrace("Monty") /\ ~InTrace("run")
          /\ pc \in {"capability", "returned"}
          /\ pc = "returned" =>
                result = TextResult("Error: REPL evaluation not available for this backend.")
    /\ (pc = "returned" /\ req.tool = "monty_tool" /\ resolved) =>
          /\ InTrace("Monty")
          /\ req.code_ok => (engine.built /\ InTrace("run"))

C5_Witness ==
    /\ pc = "returned" /\ req.tool = "monty_tool" /\ resolved /\ ~cfg.exec
    /\ engine.built /\ engine.outcome = "value" /\ TouchedBackend

\* C6: every invocation of _run_monty returns a text and lets no fault
\* escape, whatever fails: the backend factory, the construction of the
\* engine, the run, a backend primitive, a foreign function.
C6_NoFaultEscapes ==
    (pc = "returned" /\ req.tool = "monty_tool") => result.kind = "text"

\* C7: MontyREPL.repl never raises and returns a ReplResponse: output ""
\* and error the exception's message when construction or the run raised
\* (after a construction failure the run is not attempted), else error
\* None and output the string form of the value of the last expression.
C7_ReplAlwaysResponds ==
    (pc = "returned" /\ req.tool = "repl") =>
        /\ result.kind = "response"
        /\ engine.outcome \in {"construct_error", "run_error", "value"}
        /\ engine.outcome = "construct_error" =>
              /\ result = [kind |-> "response", output |-> "", has_error |-> TRUE, error |-> engine.exc.msg]
              /\ ~InTrace("run") /\ ~engine.built /\ ~TouchedBackend
        /\ engine.outcome = "run_error" =>
              result = [kind |-> "response", output |-> "", has_error |-> TRUE, error |-> engine.exc.msg]
        /\ engine.outcome = "value" =>
              /\ ~result.has_error
              /\ result.output = (IF engine.value = IntVal(2) THEN "2" ELSE "None")

C7_Witness ==
    /\ pc = "returned" /\ req.tool = "repl" /\ engine.outcome = "run_error"
    /\ printed = <<>> /\ InTrace("print")
    /\ result.has_error /\ result.error = "ZeroDivisionError: division by zero"

\* C8: MontyREPL.repl with timeout 0 or a negative timeout returns a
\* validation error, without constructing or running the engine and
\* without touching the wrapped backend.
C8_ReplRejectsNonPositiveTimeout ==
    (pc # "idle" /\ req.tool = "repl" /\ NonPositive(req.timeout)) =>
        /\ ~engine.built /\ ~InTrace("Monty") /\ ~InTrace("run") /\ ~TouchedBackend
        /\ pc = "returned" =>
              (result.kind = "response" /\ result.has_error
                  /\ result.error = TimeoutNotPositive(req.timeout.secs))

C10_RootQueries ==
    (lastOp.op \in {"path_exists", "path_is_dir", "path_is_file"} /\ lastOp.path = Root) =>
        /\ lastOp.calls = <<>>
        /\ lastOp.ret = [kind |-> "bool", b |-> lastOp.op # "path_is_file"]

C10_Witness ==
    /\ lastOp.op = "path_is_file" /\ lastOp.path = Root
    /\ backend.files[Root] # DlNotFound /\ backend.ls[Root] # <<>>
    /\ lastOp.ret = [kind |-> "bool", b |-> FALSE]

ListedInParent(b, path) == AnyPath(ls_info(b, Parent(path)), path)

DownloadOk(res) == ~res.error /\ res.has_content

\* C11: for every backend state and every path p other than "/" that is an
\* entry of the listing of its parent, path_exists(p) is true and exactly
\* one of path_is_file(p) and path_is_dir(p) is true, also when the entry
\* has no is_dir key.
C11_ListedIsFileXorDir ==
    \A p \in Paths \ {Root} :
        ListedInParent(backend, p) =>
            /\ path_exists(backend, p).ret = [kind |-> "bool", b |-> TRUE]
            /\ path_is_file(backend, p).ret.kind = "bool"
            /\ path_is_dir(backend, p).ret.kind = "bool"
            /\ path_is_file(backend, p).ret.b # path_is_dir(backend, p).ret.b

C11_Witness ==
    /\ lastOp.op = "path_is_dir" /\ lastOp.path = <<"a.txt">>
    /\ ListedInParent(backend, <<"a.txt">>)
    /\ ~FirstWithPath(backend.ls[Root], <<"a.txt">>).has_is_dir
    /\ backend.ls[<<"a.txt">>] # <<>>
    /\ lastOp.ret = [kind |-> "bool", b |-> FALSE]

\* C12: on a backend that stores what is uploaded, path_write_bytes(p, b)
\* followed by path_read_bytes(p) returns exactly b, for every path and
\* byte string written, after any earlier writes to p or to other paths.
C12_WriteReadRoundTrip ==
    lastOp.op = "path_write_bytes" =>
        path_read_bytes(backend, lastOp.path).ret = [kind |-> "bytes", bytes |-> lastOp.arg]

C12_Witness ==
    /\ lastOp.op = "path_write_bytes" /\ lastOp.path = <<"a.txt">> /\ lastOp.arg = <<255>>
    /\ backend.files[<<"d", "b">>] = DlOk(<<195, 169>>)
    /\ path_read_bytes(backend, <<"a.txt">>).ret = [kind |-> "bytes", bytes |-> <<255>>]

\* C13 as stated: path_read_text(p) and path_read_bytes(p) make exactly one
\* download call, for p, and no other backend call; they fail with
\* FileNotFoundError exactly when the response has an error or null
\* content; otherwise they return the downloaded content, path_read_text
\* its UTF-8 decoding.
C13_ReadsReturnContent ==
    (lastOp.op \in {"path_read_bytes", "path_read_text"}) =>
        /\ lastOp.calls = <<Call("download_files", lastOp.path)>>
        /\ (lastOp.ret = Raise("FileNotFoundError")) <=> ~DownloadOk(backend.files[lastOp.path])
        /\ DownloadOk(backend.files[lastOp.path]) =>
              /\ lastOp.op = "path_read_bytes" =>
                    lastOp.ret = [kind |-> "bytes", bytes |-> backend.files[lastOp.path].content]
              /\ lastOp.op = "path_read_text" =>
                    /\ lastOp.ret.kind = "text"
                    /\ Utf8Encode(lastOp.ret.text) = backend.files[lastOp.path].content

\* C13 amended: path_read_text(p) and path_read_bytes(p) make exactly one
\* download call, for p, and no other backend call, and leave the backend
\* as it was; they fail with FileNotFoundError exactly when the response has
\* an error or null content; otherwise path_read_bytes returns the
\* downloaded content, and path_read_text returns its UTF-8 decoding when
\* the content is valid UTF-8 and fails with UnicodeDecodeError when it is
\* not.
C13_ReadsDownloadOnce ==
    \A p \in Paths :
        LET res == download_files(backend, p)
            rb  == path_read_bytes(backend, p)
            rt  == path_read_text(backend, p)
        IN  /\ rb.calls = <<Call("download_files", p)>> /\ rb.backend = backend
            /\ rt.calls = <<Call("download_files", p)>> /\ rt.backend = backend
            /\ (rb.ret = Raise("FileNotFoundError")) <=> ~DownloadOk(res)
            /\ (rt.ret = Raise("FileNotFoundError")) <=> ~DownloadOk(res)
            /\ DownloadOk(res) =>
                  /\ rb.ret = [kind |-> "bytes", bytes |-> res.content]
                  /\ rt.ret.kind \in {"text", "raise"}
                  /\ rt.ret.kind = "text" => Utf8Encode(rt.ret.text) = res.content
                  /\ rt.ret.kind = "raise" =>
                        /\ rt.ret.exc = "UnicodeDecodeError"
                        /\ \A text \in {<<>>, <<104, 105>>, <<233>>, <<255>>, <<127>>, <<128>>} :
                              Utf8Encode(text) # res.content

C13_Witness ==
    /\ lastOp.op = "path_read_text" /\ lastOp.path = <<"d", "b">>
    /\ backend.files[<<"d", "b">>] = DlOk(<<255>>)
    /\ lastOp.ret = Raise("UnicodeDecodeError")
    /\ lastOp.calls = << <<"download_files", <<"d", "b">>>> >>

\* C14: path_iterdir(p) makes exactly one listing call, for p, and returns
\* exactly the paths of the entries of that listing, in the same order and
\* with the same multiplicity; for the backend whose listing of "/" is the
\* single entry /a.txt it returns [/a.txt].
C14_IterdirIsTheListing ==
    /\ \A p \in Paths :
          LET infos == ls_info(backend, p)
              r     == path_iterdir(backend, p)
          IN  /\ r.calls = <<Call("ls_info", p)>> /\ r.backend = backend
              /\ r.ret.kind = "paths"
              /\ Len(r.ret.paths) = Len(infos)
              /\ \A i \in 1..Len(infos) : r.ret.paths[i] = infos[i].path
    /\ path_iterdir(TestBackend, Root).ret = [kind |-> "paths", paths |-> << <<"a.txt">> >>]

C14_Witness ==
    /\ lastOp.op = "path_iterdir" /\ lastOp.path = Root
    /\ lastOp.ret = [kind |-> "paths", paths |-> << <<"d">>, <<"a.txt">>, <<"d">> >>]
    /\ lastOp.calls = << <<"ls_info", Root>> >>

\* C15: for every path p other than "/" and every backend state,
\* path_exists(p) is true if and only if the listing of p is non-empty or
\* an entry of the listing of p's parent has path p; the parent is listed
\* only when the listing of p is empty.
C15_ExistsByListings ==
    \A p \in Paths \ {Root} :
        LET r == path_exists(backend, p) IN
        /\ r.ret = [kind |-> "bool", b |-> (backend.ls[p] # <<>> \/ ListedInParent(backend, p))]
        /\ r.backend = backend
        /\ r.calls = (IF backend.ls[p] # <<>> THEN << <<"ls_info", p>> >>
                      ELSE << <<"ls_info", p>>, <<"ls_info", Parent(p)>> >>)

C15_Witness ==
    /\ lastOp.op = "path_exists" /\ lastOp.path = <<"d", "b">>
    /\ backend.ls[<<"d", "b">>] = <<>>
    /\ lastOp.calls = << <<"ls_info", <<"d", "b">>>>, <<"ls_info", <<"d">>>> >>
    /\ lastOp.ret = [kind |-> "bool", b |-> TRUE]

\* C16: for every path p other than "/": when an entry with path p is in
\* the listing of p's parent, path_is_file(p) is the negation of the
\* entry's is_dir flag (an absent flag counts as false) and download is not
\* called, whatever a download of p would give; when there is no such
\* entry, path_is_file(p) is true exactly when one download of p gives no
\* error and a non-null content.
C16_IsFileTrustsParentListing ==
    \A p \in Paths \ {Root} :
        LET r == path_is_file(backend, p)
            parent_infos == backend.ls[Parent(p)]
        IN  /\ r.backend = backend
            /\ ListedInParent(backend, p) =>
                  /\ r.calls = << <<"ls_info", Parent(p)>> >>
                  /\ LET info == FirstWithPath(parent_infos, p) IN
                     r.ret = [kind |-> "bool", b |-> ~(info.has_is_dir /\ info.is_dir)]
            /\ ~ListedInParent(backend, p) =>
                  /\ r.calls = << <<"ls_info", Parent(p)>>, <<"download_files", p>> >>
                  /\ r.ret = [kind |-> "bool", b |-> DownloadOk(backend.files[p])]

C16_Witness ==
    /\ lastOp.op = "path_is_file" /\ lastOp.path = <<"a.txt">>
    /\ backend.ls[Root] = <<Info(<<"a.txt">>, "dir")>>
    /\ backend.files[<<"a.txt">>] = DlOk(<<104, 105>>)
    /\ lastOp.ret = [kind |-> "bool", b |-> FALSE]
    /\ lastOp.calls = << <<"ls_info", Root>> >>

\* C17: for every path p other than "/": when an entry with path p is in
\* the listing of p's parent, path_is_dir(p) is the entry's is_dir flag (an
\* absent flag counts as false) and p itself is not listed; when there is no
\* such entry, path_is_dir(p) is true exactly when the listing of p itself
\* is non-empty.
C17_IsDirTrustsParentListing ==
    \A p \in Paths \ {Root} :
        LET r == path_is_dir(backend, p)
            parent_infos == backend.ls[Parent(p)]
        IN  /\ r.backend = backend
            /\ ListedInParent(backend, p) =>
                  /\ r.calls = << <<"ls_info", Parent(p)>> >>
                  /\ LET info == FirstWithPath(parent_infos, p) IN
                     r.ret = [kind |-> "bool", b |-> (info.has_is_dir /\ info.is_dir)]
            /\ ~ListedInParent(backend, p) =>
                  /\ r.calls = << <<"ls_info", Parent(p)>>, <<"ls_info", p>> >>
                  /\ r.ret = [kind |-> "bool", b |-> (backend.ls[p] # <<>>)]

C17_Witness ==
    /\ lastOp.op = "path_is_dir" /\ lastOp.path = <<"a.txt">>
    /\ ~ListedInParent(backend, <<"a.txt">>)
    /\ backend.ls[<<"a.txt">>] # <<>>
    /\ lastOp.ret = [kind |-> "bool", b |-> TRUE]
    /\ lastOp.calls = << <<"ls_info", Root>>, <<"ls_info", <<"a.txt">>>> >>

NotSupported(ret) ==
    /\ ret.kind = "raise"
    /\ ret.exc \in {"NotImplementedError: unlink is not supported",
                    "NotImplementedError: rmdir is not supported",
                    "NotImplementedError: rename is not supported",
                    "NotImplementedError: mkdir with exist_ok=False is not supported"}

\* C18: path_mkdir, path_unlink, path_rmdir and path_rename call no backend
\* primitive and leave the backend as it was: unlink, rmdir and rename
\* always fail with a "not supported" error, mkdir with exist_ok false
\* fails with "not supported", and mkdir with exist_ok true returns None
\* for every path, existing or not.
C18_UnsupportedOpsLeaveBackend ==
    \A p \in Paths :
        /\ \A r \in {path_unlink(backend, p), path_rmdir(backend, p)}
                \cup {path_rename(backend, p, target) : target \in Paths}
                \cup {path_mkdir(backend, p, parents, FALSE) : parents \in BOOLEAN} :
              r.calls = <<>> /\ r.backend = backend /\ NotSupported(r.ret)
        /\ \A parents \in BOOLEAN :
              LET r == path_mkdir(backend, p, parents, TRUE) IN
              r.calls = <<>> /\ r.backend = backend /\ r.ret = [kind |-> "none"]

C18_Witness ==
    /\ lastOp.op = "path_mkdir" /\ lastOp.exist_ok /\ lastOp.path = <<"d", "b">>
    /\ ~path_exists(backend, <<"d", "b">>).ret.b
    /\ backend.files[<<"a.txt">>] = DlOk(<<255>>)
    /\ lastOp.ret = [kind |-> "none"] /\ lastOp.calls = <<>>

\* str(value) of each of the values
StrAll(values) == [k \in 1..Len(values) |-> PyStr(values[k])]

\* C19: two invocations of the repl tool interleaved in any order on one
\* middleware and one backend instance share no interpreter, output or
\* state data: what each returns is the timeout error for its own timeout,
\* else the message of the error its own script raised, else the lines its
\* own script printed; while it runs its output list holds its own prints
\* only; and the repl state of its conversation is neither read nor written.
C19_InvocationsIsolated ==
    \A i \in Ids :
        LET c == invocations[i] IN
        /\ c.state = ConvState[i]
        /\ c.pc = "run" => (c.built /\ result_list[i] = StrAll(c.emitted))
        /\ c.pc = "returned" =>
              c.result = [kind |-> "text",
                          text |-> IF c.timeout.has /\ c.timeout.secs <= 0
                                   THEN "Error: timeout must be positive, got 0."
                                   ELSE IF c.exc # NoExc THEN c.exc.msg
                                   ELSE JoinLines(StrAll(c.emitted))]

C19_Witness ==
    /\ invocations[1].pc = "returned" /\ invocations[1].result = [kind |-> "text", text |-> "1\n1"]
    /\ invocations[2].pc = "run" /\ result_list[2] = <<"2">>
    /\ backend.files[<<"a.txt">>] = DlOk(<<50>>)
    /\ lastOp.op = "path_write_bytes" /\ lastOp.arg = <<50>>

\* a vision task that is neither finished nor asked to cancel
LiveVision(t) ==
    tasks[t].kind = "vision" /\ tasks[t].status # "done" /\ ~tasks[t].cancel_requested

\* C20: for every interleaving of /vision requests with the progress of the
\* background tasks, a request that starts a vision task has first asked
\* the previous one to cancel unless it was done, so at every moment at
\* most one vision task is neither finished nor asked to cancel (and it is
\* the active one); and no /vision request cancels the agent stream of a
\* /chat session.
C20_OneLiveVisionTask ==
    /\ Cardinality({t \in 1..Len(tasks) : LiveVision(t)}) <= 1
    /\ \A t \in 1..Len(tasks) : LiveVision(t) => t = active_vision_task
    /\ \A t \in 1..Len(tasks) : tasks[t].kind = "chat" => ~tasks[t].cancel_requested
    /\ active_vision_task # NoTask => tasks[active_vision_task].kind = "vision"

C20_Witness ==
    /\ Len(tasks) = 3
    /\ tasks[1] = [kind |-> "vision", status |-> "running", cancel_requested |-> TRUE]
    /\ tasks[2] = [kind |-> "chat", status |-> "streaming", cancel_requested |-> FALSE]
    /\ tasks[3] = [kind |-> "vision", status |-> "running", cancel_requested |-> FALSE]
    /\ active_vision_task = 3

\* how many times event occurs in the trace of the invocation
Occurrences(event) == Cardinality({i \in 1..Len(trace) : trace[i] = event})

\* the position of the first occurrence of event in the trace (0 when absent)
FirstAt(event) ==
    IF InTrace(event) THEN CHOOSE i \in 1..Len(trace) :
                               trace[i] = event /\ \A j \in 1..(i - 1) : trace[j] # event
    ELSE 0

\* C21: in every repl tool invocation that passes timeout validation the
\* backend is resolved once (a factory is called exactly once, an instance
\* is used as it is), before the engine is constructed; the engine runs and
\* the adapter calls backend primitives only on a backend resolved in this
\* invocation; a new invocation starts with nothing resolved.
C21_ResolvedOncePerInvocation ==
    (req.tool \in {"monty_tool", "fs_tool"} /\ pc # "idle") =>
        /\ pc = "validate" => (~resolved /\ trace = <<>>)
        /\ pc \in {"validate", "resolve"} => Occurrences("factory") = 0
        /\ (pc \notin {"validate", "resolve"} /\ ~(pc = "returned" /\ trace = <<>>)) =>
              Occurrences("factory") = (IF cfg.factory THEN 1 ELSE 0)
        /\ InTrace("Monty") =>
              /\ resolved
              /\ cfg.factory => FirstAt("factory") < FirstAt("Monty")
        /\ (InTrace("run") \/ TouchedBackend) => (resolved /\ InTrace("Monty"))
        /\ resolved => ~(cfg.factory /\ cfg.factory_raises)

C21_Witness ==
    /\ req.tool = "monty_tool" /\ pc = "returned" /\ cfg.factory /\ resolved
    /\ req.timeout = Secs(5)
    /\ Len(trace) >= 4 /\ trace[1] = "factory" /\ trace[2] = "Monty" /\ trace[3] = "run"
    /\ TouchedBackend /\ Occurrences("factory") = 1

C23_FinalValueReturned ==
    (req.tool = "monty_tool" /\ pc = "returned" /\ engine.outcome = "value"
        /\ engine.value = IntVal(2)) =>
        (result.kind \in {"text", "command"} /\ result.text = "2")

\* C24: every filesystem method of MontyREPL makes exactly one call, to the
\* same-named method of the wrapped backend with the same arguments, and
\* returns what that call returned; so after any sequence of calls a
\* MontyREPL and an identical backend called directly have returned the
\* same results and are in the same state.
C24_ReplForwardsToBackend ==
    /\ wrapped_calls = twin_calls
    /\ proxied.method # "none" =>
          /\ proxied.method \in ProxyMethods
          /\ Len(proxied.forwarded) = 1
          /\ proxied.forwarded[1].method = proxied.method
          /\ proxied.forwarded[1] = BackendBind(proxied.given)
          /\ wrapped_calls[Len(wrapped_calls)] = BackendBind(proxied.given)
          /\ proxied.ret = proxied.direct
          /\ proxied.ret.to = BackendBind(proxied.given)

C24_Witness ==
    /\ Len(wrapped_calls) = 2
    /\ wrapped_calls[1].method = "write"
    /\ proxied.method = "read" /\ proxied.given.omitted = {"offset", "limit"}
    /\ proxied.ret.to.n2 = 2000 /\ proxied.ret.after = <<wrapped_calls[1]>>
    /\ proxied.ret = proxied.direct

\* every call of calls is a call of a listing or of a download
OnlyReads(calls) ==
    \A i \in 1..Len(calls) : calls[i][1] \in {"ls_info", "download_files"}

\* C25: the adapter calls only the four backend primitives list, download,
\* upload and write, and its query operations (exists, is_file, is_dir,
\* is_symlink, stat, iterdir, read_text, read_bytes, resolve, absolute,
\* getenv, get_environ) call neither upload nor write and leave the
\* backend's contents as they were.
C25_QueriesLeaveBackend ==
    /\ \A op \in QueryOps, p \in Paths :
          LET r == OsCall(backend, op, p, NoBytes) IN
          r.backend = backend /\ OnlyReads(r.calls)
    /\ \A p \in Paths, flag \in BOOLEAN :
          /\ path_resolve(backend, p).backend = backend
          /\ path_resolve(backend, p).calls = <<>>
          /\ path_absolute(backend, p, flag).backend = backend
          /\ path_absolute(backend, p, flag).calls = <<>>
    /\ \A default \in {[kind |-> "none"], [kind |-> "str"]} :
          getenv(backend, "HOME", default).backend = backend
              /\ getenv(backend, "HOME", default).calls = <<>>
    /\ get_environ(backend).backend = backend /\ get_environ(backend).calls = <<>>
    /\ lastOp.op # "none" =>
          /\ \A i \in 1..Len(lastOp.calls) : lastOp.calls[i][1] \in BackendPrimitives
          /\ lastOp.op \notin WriteOps => OnlyReads(lastOp.calls)

C25_Witness ==
    /\ lastOp.op = "path_stat" /\ lastOp.path = <<"d", "b">>
    /\ backend.files[<<"a.txt">>] = DlOk(<<195, 169>>)
    /\ lastOp.calls = << <<"ls_info", <<"d">>>>, <<"download_files", <<"d", "b">>>> >>
    /\ lastOp.ret = [kind |-> "stat", type |-> "file", size |-> 1, mode |-> 420, mtime |-> 0]

\* C26: for every backend state and every path p, path_is_file(p) true
\* implies path_exists(p) true, and path_is_dir(p) true implies
\* path_exists(p) true, also for backends that serve downloads by path but
\* return empty listings.
C26_FileOrDirExists ==
    (lastOp.op \in {"path_is_file", "path_is_dir"} /\ lastOp.ret.b) =>
        path_exists(backend, lastOp.path).ret.b

\* C27: for every backend state and every path p, when path_exists(p) is
\* true path_stat(p) does not fail, and it reports a directory exactly when
\* path_is_dir(p) is true and a file exactly when path_is_file(p) is true.
C27_StatAgreesWithQueries ==
    (lastOp.op = "path_stat" /\ path_exists(backend, lastOp.path).ret.b) =>
        /\ lastOp.ret.kind = "stat"
        /\ (lastOp.ret.type = "dir") <=> path_is_dir(backend, lastOp.path).ret.b
        /\ (lastOp.ret.type = "file") <=> path_is_file(backend, lastOp.path).ret.b

\* C28: for every backend state and every path p, in its parent's listing
\* or not, path_is_file(p) and path_is_dir(p) are not both true.
C28_NeverFileAndDir ==
    (lastOp.op = "path_is_file" /\ lastOp.ret.b) =>
        ~path_is_dir(backend, lastOp.path).ret.b

(***************************************************************************)
(* C29: in MontyREPL.repl and in the repl tool, when the construction of   *)
(* the engine fails for the script, the run step is never started: in that *)
(* invocation no foreign function is called, no backend primitive (list,   *)
(* download, upload, write) is called and no adapter operation happens,    *)
(* and the backend is changed only by steps taken while m.run is in        *)
(* progress, so its contents are those it had before the invocation.       *)
(***************************************************************************)
C29_FailedConstructionRunsNothing ==
    /\ [](engine.outcome = "construct_error" =>
            /\ ~engine.built /\ ~engine.running
            /\ InTrace("Monty")
            /\ ~InTrace("run") /\ ~InTrace("foreign") /\ ~InTrace("print")
            /\ ~TouchedBackend
            /\ lastOp = NoOp)
    /\ [][~(engine.running /\ engine'.running) => backend' = backend]_vars

\* the repl tool of a middleware with a foreign function returns the syntax
\* error of a script, on a backend an earlier invocation has written to
C29_Witness ==
    /\ pc = "returned" /\ req.tool = "monty_tool" /\ ~req.code_ok
    /\ cfg.ext
    /\ engine.outcome = "construct_error"
    /\ result = RunMontyCatch(engine.exc)
    /\ backend # TestBackend

(***************************************************************************)
(* C30: after any sequence of add_image, add_video, clear and              *)
(* sync_to_text, the tracked images have pairwise distinct placeholders,   *)
(* next_image_id is at least 1 and greater than the id in the placeholder  *)
(* of every tracked image, the same holds of the videos and next_video_id, *)
(* and after sync_to_text(text) the placeholder of every tracked item      *)
(* occurs in text.                                                         *)
(***************************************************************************)
Occurs(placeholder, text) == \E i \in 1..Len(text) : text[i] = placeholder

Tracked(kind, items, next) ==
    /\ \A i, j \in 1..Len(items) : i # j => items[i].placeholder # items[j].placeholder
    /\ next >= 1
    /\ \A i \in 1..Len(items) :
        /\ Matches(kind, items[i].placeholder)
        /\ next > ParseInt(items[i].placeholder.digits)

C30_TrackerConsistent ==
    /\ Tracked("image", images, next_image_id)
    /\ Tracked("video", videos, next_video_id)
    /\ media_op.op = "sync_to_text" =>
        /\ \A i \in 1..Len(images) : Occurs(images[i].placeholder, media_op.text)
        /\ \A i \in 1..Len(videos) : Occurs(videos[i].placeholder, media_op.text)

\* three images and a video were added and the text keeps "[image 2]" and
\* the video: the first and the last image are pruned, the counter goes back
C30_Witness ==
    /\ media_op.op = "sync_to_text"
    /\ media_op.text = <<Placeholder("image", 2), Placeholder("video", 1)>>
    /\ images = <<MediaData(Placeholder("image", 2))>>
    /\ next_image_id = 3
    /\ videos = <<MediaData(Placeholder("video", 1))>>
    /\ next_video_id = 2

====
